---- MODULE Spec2Model ----
(***************************************************************************)
(* Session and token persistence of the traefikoidc middleware             *)
(* (src/session.go): SessionManager.GetSession, SessionData.Save / Clear,  *)
(* the token setters and getters with compression and chunking, and the    *)
(* authentication flag with its absolute timeout.                          *)
(*                                                                         *)
(* Cookies live in a client's cookie jar.  A request carries a snapshot of *)
(* the jar, the handlers work on session objects held in the request's     *)
(* registry (gorilla/sessions caches one session object per request and    *)
(* cookie name), Save writes Set-Cookie headers into the response, and the *)
(* client applies the response to its jar.                                 *)
(*                                                                         *)
(* Strings that hold token material are sequences of pieces: a piece is a  *)
(* byte range [a, b) of a token's raw text (z = FALSE) or of its           *)
(* gzip+base64 encoding (z = TRUE).  Lengths are real byte counts, so the  *)
(* 2000-byte chunk cap is the program's.                                   *)
(***************************************************************************)
EXTENDS Integers, Sequences, FiniteSets, TLC

VARIABLES
    now,        \* wall clock, in hours
    jar,        \* the client's cookies: cookie name -> Values
    reqCookies, \* per request: the cookies the request carries
    pc,         \* per request: "idle", "active", "cleared", "expired", "error", "panic", "done"
    held,       \* per request: the SessionData instance it holds (0: none)
    resp,       \* per request: the Set-Cookie headers written, in order
    sd,         \* the SessionData instances constructed so far
    pool,       \* sessionPool: per instance, how many times it is in the pool
    sess,       \* heap of session objects, keyed by <<request, cookie name>>
    opts,       \* heap of sessions.Options objects
    idCounter,  \* identifiers drawn from crypto/rand so far
    opsLeft,    \* SessionData calls (setters, Save, Clear) the handlers may still make
    nsaves,     \* per request: Save calls made
    setTok,     \* per request and slot: token of the last setter call, if any
    savedTok,   \* per request and slot: setTok as it was at the last Save
    clearedTok, \* per request: the slots that held a token when Clear wrote to the response
    forceHTTPS, \* SessionManager.forceHTTPS
    scheme,     \* per request: r.URL.Scheme, a sequence of characters
    enablePKCE, \* TraefikOidc.enablePKCE
    tokenRequests, \* the form data of the requests posted to the token endpoint, in order
    exchange,   \* the last invocation of exchangeTokens: where it stands, how it returned
    tokenCache, \* TokenCache: the entries of its cache, namespaced key -> (value, expiry)
    cacheSets,  \* per token: its latest Set, unless a Delete of the token followed it
    endSessionURL, \* TraefikOidc.endSessionURL, a sequence of characters
    postLogoutRedirectURI, \* TraefikOidc.postLogoutRedirectURI, a sequence of characters
    prev,       \* what the last answered request carried and saved
    lastOp      \* the operation of the last step

vars == <<now, jar, reqCookies, pc, held, resp, sd, pool, sess, opts,
          idCounter, opsLeft, nsaves, setTok, savedTok, clearedTok, forceHTTPS, scheme,
          enablePKCE, tokenRequests, exchange, tokenCache, cacheSets,
          endSessionURL, postLogoutRedirectURI, prev, lastOp>>

\* The state of the token exchange, which the session operations leave alone.
exchangeVars == <<enablePKCE, tokenRequests, exchange>>

\* The state of the token cache.
cacheVars == <<tokenCache, cacheSets>>

\* The logout configuration of the middleware.
logoutVars == <<endSessionURL, postLogoutRedirectURI>>

\* The state of the sessions, which the token exchange leaves alone.
sessionVars == <<now, jar, reqCookies, pc, held, resp, sd, pool, sess, opts, idCounter,
                 opsLeft, nsaves, setTok, savedTok, clearedTok, forceHTTPS, scheme, prev>>

(***************************************************************************)
(* Bounds of the model.                                                    *)
(***************************************************************************)
MaxReq == 3
MaxOps == 3
MaxTokenOps == 4
MaxExchanges == 2
maxRedirects == 50
MaxOptionOps == 2
MaxSizeOps == 3
LongTextLen == 3000
MaxFaultOps == 3
MaxConcurrentOps == 3
MaxWrites == 7
MaxLogoutOps == 3
MaxLogoutFaultOps == 4
MaxTicks == 2
TickHours == 24

Requests == 1..MaxReq

(***************************************************************************)
(* Program constants.                                                      *)
(***************************************************************************)
mainCookieName == "_oidc_raczylo_m"
accessTokenCookie == "_oidc_raczylo_a"
refreshTokenCookie == "_oidc_raczylo_r"
maxCookieSize == 2000
absoluteSessionTimeout == 24
sessionMaxAge == 86400
storeMaxAge == 2592000

\* The options of a session that the store has created: gorilla's
\* NewCookieStore sets Path and MaxAge and leaves the rest at Go's zero values.
storeOptions ==
    [HttpOnly |-> FALSE, Secure |-> FALSE, SameSite |-> "Default",
     MaxAge |-> storeMaxAge, Path |-> "/"]

\* URL schemes, as sequences of characters.
Http == <<"h", "t", "t", "p">>
Https == <<"h", "t", "t", "p", "s">>
Schemes == {<<>>, Http, Https, Https \o <<"x">>}

NoIndex == 0 - 1
NIL == <<>>
EmptyMap == <<>>

\* fmt.Sprintf("%s_%d", baseName, i); the base cookie itself has no index.
CookieName(baseName, i) == <<baseName, i>>
BaseName(baseName) == <<baseName, NoIndex>>

Slots == {accessTokenCookie, refreshTokenCookie}

(***************************************************************************)
(* Tokens handed to the setters: raw length and length of the gzip+base64  *)
(* encoding (a multiple of 4).                                             *)
(***************************************************************************)
Tokens == {"tS", "tB", "tL", "tX"}
RawLen == [t \in Tokens |->
            CASE t = "tS" -> 900 [] t = "tB" -> 1480 [] t = "tL" -> 2980 [] t = "tX" -> 3360]
CompressedLen == [t \in Tokens |->
            CASE t = "tS" -> 1200 [] t = "tB" -> 2000 [] t = "tL" -> 4000 [] t = "tX" -> 4504]

Raw(t) == << [t |-> t, z |-> FALSE, a |-> 0, b |-> RawLen[t]] >>

RECURSIVE StrLen(_)
StrLen(s) == IF s = <<>> THEN 0 ELSE (s[1].b - s[1].a) + StrLen(Tail(s))

\* String concatenation: adjacent ranges of the same text merge.
Concat(s1, s2) ==
    IF s1 = <<>> THEN s2
    ELSE IF s2 = <<>> THEN s1
    ELSE LET l == s1[Len(s1)]
             f == s2[1]
         IN IF l.t = f.t /\ l.z = f.z /\ l.b = f.a
            THEN SubSeq(s1, 1, Len(s1) - 1) \o << [l EXCEPT !.b = f.b] >> \o Tail(s2)
            ELSE s1 \o s2

\* s[:n]
RECURSIVE Take(_, _)
Take(s, n) ==
    IF n <= 0 \/ s = <<>> THEN <<>>
    ELSE LET p == s[1]
             l == p.b - p.a
         IN IF l <= n THEN <<p>> \o Take(Tail(s), n - l)
            ELSE << [p EXCEPT !.b = p.a + n] >>

\* s[n:]
RECURSIVE Drop(_, _)
Drop(s, n) ==
    IF s = <<>> THEN <<>>
    ELSE IF n <= 0 THEN s
    ELSE LET p == s[1]
             l == p.b - p.a
         IN IF l <= n THEN Drop(Tail(s), n - l)
            ELSE << [p EXCEPT !.a = p.a + n] >> \o Tail(s)

\* gzip, then standard base64: the whole encoding of the token's text.
compressToken(token) ==
    LET t == token[1].t
    IN << [t |-> t, z |-> TRUE, a |-> 0, b |-> CompressedLen[t]] >>

\* base64-decode and gunzip; anything that is not exactly one whole encoding
\* fails to decode and is returned as it is.
decompressToken(compressed) ==
    IF /\ Len(compressed) = 1
       /\ compressed[1].z
       /\ compressed[1].a = 0
       /\ compressed[1].b = CompressedLen[compressed[1].t]
    THEN Raw(compressed[1].t)
    ELSE compressed

\* splitIntoChunks without its last branch: the remainder that fits a chunk
\* is lost.
RECURSIVE splitIntoChunksDropTail(_, _)
splitIntoChunksDropTail(s, chunkSize) ==
    IF StrLen(s) > chunkSize
    THEN <<Take(s, chunkSize)>> \o splitIntoChunksDropTail(Drop(s, chunkSize), chunkSize)
    ELSE <<>>

\* One chunk whatever the length.
splitIntoOneChunk(s, chunkSize) == IF StrLen(s) > 0 THEN <<s>> ELSE <<>>

RECURSIVE splitIntoChunks(_, _)
splitIntoChunks(s, chunkSize) ==
    IF StrLen(s) > 0
    THEN IF StrLen(s) > chunkSize
         THEN <<Take(s, chunkSize)>> \o splitIntoChunks(Drop(s, chunkSize), chunkSize)
         ELSE <<s>>
    ELSE <<>>

(***************************************************************************)
(* Values maps and the type assertions of the getters.                     *)
(***************************************************************************)
Put(m, k, v) == (k :> v) @@ m
ValString(m, k) == IF k \in DOMAIN m THEN m[k] ELSE <<>>
ValBool(m, k) == IF k \in DOMAIN m THEN m[k] ELSE FALSE

(***************************************************************************)
(* The heap: session objects and the Options objects they point to.  A     *)
(* heap H is [sess, opts]; the operators below take a heap and return the  *)
(* heap after the code's assignments.                                      *)
(***************************************************************************)
Heap == [sess |-> sess, opts |-> opts]

Ref(r, name) == <<r, name>>
OwnOptions(r, name) == <<"own", r, name[1], name[2]>>
SaveOptions(r, k) == <<"save", r, "", k>>

\* r.Cookie(name) reads the cookies the request arrived with: the client's jar
\* as it was when the request was sent.
RequestCookies(r) == IF pc[r] = "idle" THEN jar ELSE reqCookies[r]

\* A cookie value that the store's codec cannot decode (altered by the
\* client, or written under another key).
Corrupt == [undecodable |-> TRUE]

\* The request's cookie of that name decodes.
Decodes(r, name) ==
    name \in DOMAIN RequestCookies(r) /\ RequestCookies(r)[name] # Corrupt

\* CookieStore.New: a session with the store's default options, filled from
\* the request's cookie of that name when there is one.  A cookie that does
\* not decode leaves the session new and empty, and the call returns it
\* together with the error, which the registry keeps (Err).
StoreNew(r, name) ==
    [Values  |-> IF Decodes(r, name) THEN RequestCookies(r)[name] ELSE EmptyMap,
     Options |-> OwnOptions(r, name),
     IsNew   |-> ~Decodes(r, name),
     Err     |-> name \in DOMAIN RequestCookies(r) /\ RequestCookies(r)[name] = Corrupt,
     ID      |-> 0]

\* store.Get(r, name): the request's registry returns the session object it
\* already holds for the name, or has the store make one and keeps it.
StoreGet(H, r, name) ==
    IF Ref(r, name) \in DOMAIN H.sess THEN H
    ELSE [sess |-> (Ref(r, name) :> StoreNew(r, name)) @@ H.sess,
          opts |-> (OwnOptions(r, name) :> storeOptions) @@ H.opts]

SetValue(H, ref, k, v) == [H EXCEPT !.sess[ref].Values = Put(@, k, v)]
SetValues(H, ref, m) == [H EXCEPT !.sess[ref].Values = m]
SetOptions(H, ref, o) == [H EXCEPT !.sess[ref].Options = o]
\* session.Options.MaxAge = age: writes the Options object the session points to.
SetMaxAge(H, ref, age) == [H EXCEPT !.opts[H.sess[ref].Options].MaxAge = age]

ValuesOf(H, ref) == H.sess[ref].Values
MaxAgeOf(H, ref) == H.opts[H.sess[ref].Options].MaxAge

(***************************************************************************)
(* SessionData                                                             *)
(***************************************************************************)
NewSessionData ==
    [request            |-> 0,
     mainSession        |-> NIL,
     accessSession      |-> NIL,
     refreshSession     |-> NIL,
     accessTokenChunks  |-> EmptyMap,
     refreshTokenChunks |-> EmptyMap]

TokenSession(s, slot) ==
    IF slot = accessTokenCookie THEN s.accessSession ELSE s.refreshSession
TokenChunks(s, slot) ==
    IF slot = accessTokenCookie THEN s.accessTokenChunks ELSE s.refreshTokenChunks
WithTokenChunks(s, slot, chunks) ==
    IF slot = accessTokenCookie THEN [s EXCEPT !.accessTokenChunks = chunks]
    ELSE [s EXCEPT !.refreshTokenChunks = chunks]

NoPrefix(str, prefix) == FALSE

\* strings.HasPrefix
HasPrefix(str, prefix) ==
    Len(str) >= Len(prefix) /\ SubSeq(str, 1, Len(prefix)) = prefix

\* getSessionOptions
getSessionOptions(isSecure) ==
    [HttpOnly |-> TRUE, Secure |-> isSecure \/ forceHTTPS, SameSite |-> "Lax",
     MaxAge |-> sessionMaxAge, Path |-> "/"]

\* getTokenChunkSessions that stops after the first chunk cookie.
getTokenChunkSessionsFirstOnly(H, r, baseName, i, chunks) ==
    LET name == CookieName(baseName, i)
        H1 == StoreGet(H, r, name)
    IN IF H1.sess[Ref(r, name)].IsNew
       THEN [H |-> H1, chunks |-> chunks]
       ELSE [H |-> H1, chunks |-> (i :> Ref(r, name)) @@ chunks]

\* getTokenChunkSessions that goes on to the next chunk cookie past one that
\* is absent or does not decode.
RECURSIVE getTokenChunkSessionsPastGap(_, _, _, _, _)
getTokenChunkSessionsPastGap(H, r, baseName, i, chunks) ==
    LET name == CookieName(baseName, i)
        H1 == StoreGet(H, r, name)
    IN IF H1.sess[Ref(r, name)].Err \/ H1.sess[Ref(r, name)].IsNew
       THEN IF CookieName(baseName, i + 1) \in DOMAIN RequestCookies(r)
            THEN getTokenChunkSessionsPastGap(H1, r, baseName, i + 1, chunks)
            ELSE [H |-> H1, chunks |-> chunks]
       ELSE getTokenChunkSessionsPastGap(H1, r, baseName, i + 1, (i :> Ref(r, name)) @@ chunks)

RECURSIVE getTokenChunkSessions(_, _, _, _, _)
getTokenChunkSessions(H, r, baseName, i, chunks) ==
    LET name == CookieName(baseName, i)
        H1 == StoreGet(H, r, name)
    IN IF H1.sess[Ref(r, name)].Err \/ H1.sess[Ref(r, name)].IsNew
       THEN [H |-> H1, chunks |-> chunks]
       ELSE getTokenChunkSessions(H1, r, baseName, i + 1, (i :> Ref(r, name)) @@ chunks)

clearTokenChunks(H, chunks) ==
    LET refs == {chunks[i] : i \in DOMAIN chunks}
        touched == {H.sess[ref].Options : ref \in refs}
    IN [sess |-> [k \in DOMAIN H.sess |->
                    IF k \in refs THEN [H.sess[k] EXCEPT !.Values = EmptyMap] ELSE H.sess[k]],
        opts |-> [o \in DOMAIN H.opts |->
                    IF o \in touched THEN [H.opts[o] EXCEPT !.MaxAge = 0 - 1] ELSE H.opts[o]]]

\* Clear, lines 354-370: expire and empty the three partitions and the chunks.
ClearSessions(H, s) ==
    LET H1 == SetMaxAge(H, s.mainSession, 0 - 1)
        H2 == SetMaxAge(H1, s.accessSession, 0 - 1)
        H3 == SetMaxAge(H2, s.refreshSession, 0 - 1)
        H4 == SetValues(H3, s.mainSession, EmptyMap)
        H5 == SetValues(H4, s.accessSession, EmptyMap)
        H6 == SetValues(H5, s.refreshSession, EmptyMap)
        H7 == clearTokenChunks(H6, s.accessTokenChunks)
    IN clearTokenChunks(H7, s.refreshTokenChunks)

\* session.Save(r, w): the Set-Cookie header CookieStore.Save writes.
SetCookie(H, ref) ==
    [name |-> ref[2], Values |-> ValuesOf(H, ref), MaxAge |-> MaxAgeOf(H, ref),
     HttpOnly |-> H.opts[H.sess[ref].Options].HttpOnly,
     Secure |-> H.opts[H.sess[ref].Options].Secure,
     SameSite |-> H.opts[H.sess[ref].Options].SameSite,
     Path |-> H.opts[H.sess[ref].Options].Path]

Perms(S) == {f \in [1..Cardinality(S) -> S] : \A i, j \in DOMAIN f : f[i] = f[j] => i = j}

RECURSIVE SaveChunksKeepGoing(_, _, _, _, _, _)
SaveChunksKeepGoing(H, chunks, ord, o, written, failAt) ==
    IF ord = <<>> THEN [H |-> H, written |-> written, err |-> failAt # 0]
    ELSE LET ref == chunks[Head(ord)]
             H1 == SetOptions(H, ref, o)
         IN SaveChunksKeepGoing(H1, chunks, Tail(ord), o, Append(written, SetCookie(H1, ref)),
                                failAt)

\* Save's loop over a chunk map, in the order ord of its keys.  failAt is the
\* number, within this Save, of the session.Save call that fails (0: none
\* does); the loop returns at the failing call, after it has assigned the
\* options of that chunk.
RECURSIVE SaveChunks(_, _, _, _, _, _)
SaveChunks(H, chunks, ord, o, written, failAt) ==
    IF ord = <<>> THEN [H |-> H, written |-> written, err |-> FALSE]
    ELSE LET ref == chunks[Head(ord)]
             H1 == SetOptions(H, ref, o)
         IN IF Len(written) + 1 = failAt
            THEN [H |-> H1, written |-> written, err |-> TRUE]
            ELSE SaveChunks(H1, chunks, Tail(ord), o, Append(written, SetCookie(H1, ref)), failAt)

SaveSessionsChunksFirst(H, s, r, o, ordA, ordR, failAt) ==
    LET isSecure == HasPrefix(scheme[r], Https) \/ forceHTTPS
        H0 == [H EXCEPT !.opts = (o :> getSessionOptions(isSecure)) @@ @]
        H1 == SetOptions(SetOptions(SetOptions(H0, s.mainSession, o), s.accessSession, o),
                         s.refreshSession, o)
        A == SaveChunks(H1, s.accessTokenChunks, ordA, o, <<>>, 0)
        R == SaveChunks(A.H, s.refreshTokenChunks, ordR, o, A.written, 0)
    IN [H |-> R.H,
        written |-> R.written \o << SetCookie(H1, s.mainSession), SetCookie(H1, s.accessSession),
                                    SetCookie(H1, s.refreshSession) >>,
        err |-> FALSE]

\* Save, lines 296-337; ordA and ordR are the iteration orders of the chunk
\* maps, written the headers this Save has added to the response, err its
\* result.
SaveSessions(H, s, r, o, ordA, ordR, failAt) ==
    LET isSecure == HasPrefix(scheme[r], Https) \/ forceHTTPS
        H0 == [H EXCEPT !.opts = (o :> getSessionOptions(isSecure)) @@ @]
        H1 == SetOptions(SetOptions(SetOptions(H0, s.mainSession, o), s.accessSession, o),
                         s.refreshSession, o)
        base == << SetCookie(H1, s.mainSession), SetCookie(H1, s.accessSession),
                   SetCookie(H1, s.refreshSession) >>
        A == SaveChunks(H1, s.accessTokenChunks, ordA, o, base, failAt)
    IN IF failAt \in 1..3
       THEN [H |-> H1, written |-> SubSeq(base, 1, failAt - 1), err |-> TRUE]
       ELSE IF A.err THEN A
       ELSE SaveChunks(A.H, s.refreshTokenChunks, ordR, o, A.written, failAt)

(***************************************************************************)
(* The client: applies the Set-Cookie headers of a response, in order.     *)
(***************************************************************************)
RECURSIVE ApplyCookies(_, _)
ApplyCookies(cookies, headers) ==
    IF headers = <<>> THEN cookies
    ELSE LET h == Head(headers)
             next == IF h.MaxAge < 0
                     THEN [n \in DOMAIN cookies \ {h.name} |-> cookies[n]]
                     ELSE (h.name :> h.Values) @@ cookies
         IN ApplyCookies(next, Tail(headers))

(***************************************************************************)
(* Token setters and getters.  The access and the refresh slot run the     *)
(* same code on their own fields.                                          *)
(***************************************************************************)
\* expireAccessTokenChunks(nil) / expireRefreshTokenChunks(nil)
RECURSIVE expireTokenChunks(_, _, _, _)
expireTokenChunks(H, r, baseName, i) ==
    LET name == CookieName(baseName, i)
        H1 == StoreGet(H, r, name)
    IN IF H1.sess[Ref(r, name)].Err \/ H1.sess[Ref(r, name)].IsNew
       THEN H1
       ELSE expireTokenChunks(SetValues(SetMaxAge(H1, Ref(r, name), 0 - 1), Ref(r, name), EmptyMap),
                              r, baseName, i + 1)

\* The setters' loop over the chunks: chunk i goes into the session the
\* registry holds for cookie <base>_<i>.
RECURSIVE StoreChunks(_, _, _, _, _, _)
StoreChunks(H, r, baseName, chunks, i, map) ==
    IF i >= Len(chunks) THEN [H |-> H, chunks |-> map]
    ELSE LET name == CookieName(baseName, i)
             H1 == SetValue(StoreGet(H, r, name), Ref(r, name), "token_chunk", chunks[i + 1])
         IN StoreChunks(H1, r, baseName, chunks, i + 1, (i :> Ref(r, name)) @@ map)

\* A setter whose chunked branch leaves the inline token field as it finds it.
SetTokenKeepInline(H, s, slot, token) ==
    LET H1 == IF s.request # 0 THEN expireTokenChunks(H, s.request, slot, 0) ELSE H
        compressed == compressToken(token)
        ref == TokenSession(s, slot)
    IN IF StrLen(compressed) <= maxCookieSize
       THEN [H |-> SetValue(SetValue(H1, ref, "token", compressed), ref, "compressed", TRUE),
             s |-> WithTokenChunks(s, slot, EmptyMap)]
       ELSE LET H2 == SetValue(H1, ref, "compressed", TRUE)
                W == StoreChunks(H2, s.request, slot,
                                 splitIntoChunks(compressed, maxCookieSize), 0, EmptyMap)
            IN [H |-> W.H, s |-> WithTokenChunks(s, slot, W.chunks)]

\* A setter that chunks a token whose encoding is exactly maxCookieSize long.
SetTokenStrictLimit(H, s, slot, token) ==
    LET H1 == IF s.request # 0 THEN expireTokenChunks(H, s.request, slot, 0) ELSE H
        compressed == compressToken(token)
        ref == TokenSession(s, slot)
    IN IF StrLen(compressed) < maxCookieSize
       THEN [H |-> SetValue(SetValue(H1, ref, "token", compressed), ref, "compressed", TRUE),
             s |-> WithTokenChunks(s, slot, EmptyMap)]
       ELSE LET H2 == SetValue(SetValue(H1, ref, "token", <<>>), ref, "compressed", TRUE)
                W == StoreChunks(H2, s.request, slot,
                                 splitIntoChunks(compressed, maxCookieSize), 0, EmptyMap)
            IN [H |-> W.H, s |-> WithTokenChunks(s, slot, W.chunks)]

\* A setter that puts the chunks of its token into the chunk maps of both slots.
SetTokenIntoBothMaps(H, s, slot, token) ==
    LET H1 == IF s.request # 0 THEN expireTokenChunks(H, s.request, slot, 0) ELSE H
        compressed == compressToken(token)
        ref == TokenSession(s, slot)
    IN IF StrLen(compressed) <= maxCookieSize
       THEN [H |-> SetValue(SetValue(H1, ref, "token", compressed), ref, "compressed", TRUE),
             s |-> [s EXCEPT !.accessTokenChunks = EmptyMap, !.refreshTokenChunks = EmptyMap]]
       ELSE LET H2 == SetValue(SetValue(H1, ref, "token", <<>>), ref, "compressed", TRUE)
                W == StoreChunks(H2, s.request, slot,
                                 splitIntoChunks(compressed, maxCookieSize), 0, EmptyMap)
            IN [H |-> W.H,
                s |-> [s EXCEPT !.accessTokenChunks = W.chunks, !.refreshTokenChunks = W.chunks]]

\* SetAccessToken / SetRefreshToken on instance record s.
SetToken(H, s, slot, token) ==
    LET H1 == IF s.request # 0 THEN expireTokenChunks(H, s.request, slot, 0) ELSE H
        compressed == compressToken(token)
        ref == TokenSession(s, slot)
    IN IF StrLen(compressed) <= maxCookieSize
       THEN [H |-> SetValue(SetValue(H1, ref, "token", compressed), ref, "compressed", TRUE),
             s |-> WithTokenChunks(s, slot, EmptyMap)]
       ELSE LET H2 == SetValue(SetValue(H1, ref, "token", <<>>), ref, "compressed", TRUE)
                W == StoreChunks(H2, s.request, slot,
                                 splitIntoChunks(compressed, maxCookieSize), 0, EmptyMap)
            IN [H |-> W.H, s |-> WithTokenChunks(s, slot, W.chunks)]

\* strings.Join of the chunks from index 0 up to the first missing index.
RECURSIVE JoinChunks(_, _, _)
JoinChunks(H, chunks, i) ==
    IF i \notin DOMAIN chunks THEN <<>>
    ELSE Concat(ValString(ValuesOf(H, chunks[i]), "token_chunk"), JoinChunks(H, chunks, i + 1))

\* GetAccessToken / GetRefreshToken on instance record s.
GetToken(H, s, slot) ==
    LET values == ValuesOf(H, TokenSession(s, slot))
        token == ValString(values, "token")
        chunks == TokenChunks(s, slot)
    IN IF token # <<>>
       THEN IF ValBool(values, "compressed") THEN decompressToken(token) ELSE token
       ELSE IF Cardinality(DOMAIN chunks) = 0 THEN <<>>
       ELSE LET joined == JoinChunks(H, chunks, 0)
            IN IF ValBool(values, "compressed") THEN decompressToken(joined) ELSE joined

GetAccessToken(r) == GetToken(Heap, sd[held[r]], accessTokenCookie)
GetRefreshToken(r) == GetToken(Heap, sd[held[r]], refreshTokenCookie)

(***************************************************************************)
(* Main-partition getters                                                  *)
(***************************************************************************)
MainValues(H, s) == ValuesOf(H, s.mainSession)

\* time.Since(time.Unix(createdAt, 0)) > absoluteSessionTimeout
TimedOut(createdAt) == now - createdAt > absoluteSessionTimeout

\* GetAuthenticated that trusts the flag and does not look at created_at.
GetAuthenticatedOfNoTimeout(H, s) == ValBool(MainValues(H, s), "authenticated")

GetAuthenticatedOf(H, s) ==
    LET values == MainValues(H, s)
    IN IF ~ValBool(values, "authenticated") THEN FALSE
       ELSE IF "created_at" \notin DOMAIN values THEN FALSE
       ELSE ~TimedOut(values["created_at"])

GetAuthenticated(r) == GetAuthenticatedOf(Heap, sd[held[r]])

\* The main partition's fields as they are stored; NoTime: no created_at.
NoTime == 0 - 1
AuthenticatedFlag(r) == ValBool(MainValues(Heap, sd[held[r]]), "authenticated")
CreatedAt(r) ==
    LET values == MainValues(Heap, sd[held[r]])
    IN IF "created_at" \in DOMAIN values THEN values["created_at"] ELSE NoTime
MainID(r) == sess[sd[held[r]].mainSession].ID

StringKeys == {"csrf", "nonce", "code_verifier", "email", "incoming_path"}
StringValues == {"x"}

\* Argument strings of the string setters by length: "x" is one character,
\* "xl" a text of LongTextLen characters (an e-mail address or a request path
\* is as long as the provider or the client makes it).
SizedValues == {"x", "xl"}
TextLen(v) == IF v = "xl" THEN LongTextLen ELSE 1

\* Number of bytes of a key of a Values map.
KeyLen(k) ==
    CASE k = "token" -> 5
      [] k = "token_chunk" -> 11
      [] k = "compressed" -> 10
      [] k = "authenticated" -> 13
      [] k = "created_at" -> 10
      [] k = "id" -> 2
      [] k = "csrf" -> 4
      [] k = "nonce" -> 5
      [] k = "code_verifier" -> 13
      [] k = "email" -> 5
      [] k = "incoming_path" -> 13

\* Number of bytes of the value stored under key k.
ValueLen(values, k) ==
    IF k \in {"token", "token_chunk"} THEN StrLen(values[k])
    ELSE IF k \in StringKeys THEN TextLen(values[k])
    ELSE 1

\* The bytes of the keys and values of a Values map: what any serialization
\* of the map has to carry, without its framing.
RECURSIVE PayloadLen(_, _)
PayloadLen(values, keys) ==
    IF keys = {} THEN 0
    ELSE LET k == CHOOSE x \in keys : TRUE
         IN KeyLen(k) + ValueLen(values, k) + PayloadLen(values, keys \ {k})
GetString(r, key) ==
    LET values == MainValues(Heap, sd[held[r]])
    IN IF key \in DOMAIN values THEN values[key] ELSE ""

(***************************************************************************)
(* State after construction: NewSessionManager has run, the pool is empty, *)
(* the client holds no cookies, no request has arrived.                    *)
(***************************************************************************)
NoToken == ""

\* Number of chunk cookies <baseName>_0, <baseName>_1, ... without a gap.
RECURSIVE ChunkCookies(_, _, _)
ChunkCookies(cookies, baseName, i) ==
    IF CookieName(baseName, i) \in DOMAIN cookies THEN ChunkCookies(cookies, baseName, i + 1) ELSE i

\* Number of chunks the setters store a token in (0: inline).
NChunks(t) ==
    IF CompressedLen[t] <= maxCookieSize THEN 0
    ELSE (CompressedLen[t] + maxCookieSize - 1) \div maxCookieSize

RECURSIVE JoinCookies(_, _, _)
JoinCookies(cookies, baseName, i) ==
    IF CookieName(baseName, i) \notin DOMAIN cookies THEN <<>>
    ELSE Concat(ValString(cookies[CookieName(baseName, i)], "token_chunk"),
                JoinCookies(cookies, baseName, i + 1))

\* The token the cookies hold in chunk cookies <slot>_0 .. <slot>_(n-1), as a
\* setter and Save store it: the token field of the slot's own cookie empty,
\* the chunk cookies the n fragments of the token's encoding.
ChunkedToken(cookies, slot) ==
    IF /\ BaseName(slot) \in DOMAIN cookies
       /\ ValString(cookies[BaseName(slot)], "token") = <<>>
       /\ \E t \in Tokens : /\ NChunks(t) > 0
                             /\ ChunkCookies(cookies, slot, 0) = NChunks(t)
                             /\ JoinCookies(cookies, slot, 0) = compressToken(Raw(t))
    THEN CHOOSE t \in Tokens : JoinCookies(cookies, slot, 0) = compressToken(Raw(t))
    ELSE NoToken

HasTokenCookies(cookies, slot) == \E name \in DOMAIN cookies : name[1] = slot

NoRequest ==
    [r |-> 0,
     saved |-> [slot \in Slots |-> NoToken],
     nsaves |-> 0,
     outcome |-> "idle",
     cleared |-> {},
     chunkedIn |-> [slot \in Slots |-> NoToken],
     tokenCookiesIn |-> FALSE]

InitSessions(budget) ==
    /\ now = 0
    /\ jar = EmptyMap
    /\ reqCookies = [r \in Requests |-> EmptyMap]
    /\ pc = [r \in Requests |-> "idle"]
    /\ held = [r \in Requests |-> 0]
    /\ resp = [r \in Requests |-> <<>>]
    /\ sd = <<>>
    /\ pool = <<>>
    /\ sess = EmptyMap
    /\ opts = EmptyMap
    /\ idCounter = 0
    /\ opsLeft = budget
    /\ nsaves = [r \in Requests |-> 0]
    /\ setTok = [r \in Requests |-> [slot \in Slots |-> NoToken]]
    /\ savedTok = [r \in Requests |-> [slot \in Slots |-> NoToken]]
    /\ clearedTok = [r \in Requests |-> {}]
    /\ prev = NoRequest
    /\ lastOp = [op |-> "Init", r |-> 0, arg |-> 0]

\* NewTokenCache: an empty cache.
InitNoCache ==
    /\ tokenCache = EmptyMap
    /\ cacheSets = EmptyMap

\* A middleware without end-session URL and without post-logout URL.
InitNoLogout ==
    /\ endSessionURL = <<>>
    /\ postLogoutRedirectURI = <<>>

\* No invocation of exchangeTokens yet.
NoExchange ==
    [state |-> "none", caller |-> "", ctx |-> "", data |-> EmptyMap, calls |-> 0, via |-> 0,
     redirects |-> 0, cancelled |-> FALSE, deadline |-> FALSE, result |-> "none",
     cause |-> "", status |-> 0, response |-> [none |-> TRUE]]

\* No token request has been posted.
InitNoExchange ==
    /\ enablePKCE = FALSE
    /\ tokenRequests = <<>>
    /\ exchange = NoExchange
    /\ InitNoCache
    /\ InitNoLogout

\* A manager without forceHTTPS, serving plain http requests.
InitWith(budget) ==
    /\ InitSessions(budget)
    /\ forceHTTPS = FALSE
    /\ scheme = [r \in Requests |-> Http]
    /\ InitNoExchange

Init == InitWith(MaxOps)

Finished == {"done", "panic"}

\* Requests of the client arrive one after the other.
CanStart(r) == pc[r] = "idle" /\ \A q \in Requests : q < r => pc[q] \in Finished

\* GetSession that leaves the chunk maps of the pooled instance as they are.
keepChunkMap(chunks) == chunks

\* GetSession, lines 221-226: every key of the chunk map is deleted.
RECURSIVE clearChunkMap(_)
clearChunkMap(chunks) ==
    IF DOMAIN chunks = {} THEN chunks
    ELSE LET k == CHOOSE i \in DOMAIN chunks : TRUE
         IN clearChunkMap([i \in DOMAIN chunks \ {k} |-> chunks[i]])

(***************************************************************************)
(* SessionManager.GetSession(r) on the instance record s0 that             *)
(* sessionPool.Get() returned.  Clear(r, nil) on the timeout path          *)
(* dereferences accessSession and refreshSession, which a newly            *)
(* constructed instance does not have yet: the call panics there.          *)
(***************************************************************************)
LoadSession(r, s0) ==
    LET mainName == BaseName(mainCookieName)
        accessName == BaseName(accessTokenCookie)
        refreshName == BaseName(refreshTokenCookie)
        s1 == [s0 EXCEPT !.request = r, !.mainSession = Ref(r, mainName)]
        H1 == StoreGet(Heap, r, mainName)
        values == ValuesOf(H1, Ref(r, mainName))
    IN IF H1.sess[Ref(r, mainName)].Err
       THEN [result |-> "error", s |-> s1, H |-> H1]
       ELSE IF "created_at" \in DOMAIN values /\ TimedOut(values["created_at"])
       THEN IF s1.accessSession = NIL
            THEN [result |-> "panic", s |-> s1, H |-> SetMaxAge(H1, s1.mainSession, 0 - 1)]
            ELSE IF s1.refreshSession = NIL
            THEN [result |-> "panic", s |-> s1,
                  H |-> SetMaxAge(SetMaxAge(H1, s1.mainSession, 0 - 1), s1.accessSession, 0 - 1)]
            ELSE [result |-> "expired", s |-> [s1 EXCEPT !.request = 0],
                  H |-> ClearSessions(H1, s1)]
       ELSE LET H2 == StoreGet(H1, r, accessName)
                s2 == [s1 EXCEPT !.accessSession = Ref(r, accessName)]
                H3 == StoreGet(H2, r, refreshName)
                s3 == [s2 EXCEPT !.refreshSession = Ref(r, refreshName)]
                A == getTokenChunkSessions(H3, r, accessTokenCookie, 0,
                                           clearChunkMap(s3.accessTokenChunks))
                R == getTokenChunkSessions(A.H, r, refreshTokenCookie, 0,
                                           clearChunkMap(s3.refreshTokenChunks))
            IN IF H2.sess[Ref(r, accessName)].Err
               THEN [result |-> "error", s |-> s2, H |-> H2]
               ELSE IF H3.sess[Ref(r, refreshName)].Err
               THEN [result |-> "error", s |-> s3, H |-> H3]
               ELSE [result |-> "ok",
                     s |-> [s3 EXCEPT !.accessTokenChunks = A.chunks,
                                      !.refreshTokenChunks = R.chunks],
                     H |-> R.H]

\* sessionPool.Get and sessionPool.Put on the pool p, for instance i.
PoolGetKeeps(p, i) == p

PoolGet(p, i) == [p EXCEPT ![i] = @ - 1]

PoolPutNothing(p, i) == p

PoolPut(p, i) == [p EXCEPT ![i] = @ + 1]

ReleasedOnExpiryOnly(result) == result = "expired"

\* The results with which GetSession has put the instance back into the pool
\* when it returns: Clear(r, nil) on the timeout path, sessionPool.Put on a
\* store error.
Released(result) == result \in {"expired", "error"}

\* i <= Len(sd): the pool hands out instance i; i = Len(sd) + 1: the pool is
\* empty or chooses to construct (sessionPool.New).
AcquireAndLoad(r, i) ==
    /\ pc[r] = "idle"
    /\ i \in 1..(Len(sd) + 1)
    /\ i <= Len(sd) => pool[i] > 0
    /\ LET fresh == i > Len(sd)
           L == LoadSession(r, IF fresh THEN NewSessionData ELSE sd[i])
           sd1 == IF fresh THEN Append(sd, L.s) ELSE [sd EXCEPT ![i] = L.s]
           pool1 == IF fresh THEN Append(pool, 0) ELSE PoolGet(pool, i)
       IN /\ sd' = sd1
          /\ sess' = L.H.sess
          /\ opts' = L.H.opts
          /\ pool' = IF Released(L.result) THEN PoolPut(pool1, i) ELSE pool1
          /\ held' = [held EXCEPT ![r] = IF Released(L.result) THEN 0 ELSE i]
          /\ pc' = [pc EXCEPT ![r] = IF L.result = "ok" THEN "active" ELSE L.result]
          /\ lastOp' = [op |-> "GetSession", r |-> r, arg |-> [inst |-> i, fresh |-> fresh]]
    /\ reqCookies' = [reqCookies EXCEPT ![r] = jar]
    /\ UNCHANGED <<exchangeVars, cacheVars, logoutVars, forceHTTPS, scheme, clearedTok, now, jar, resp, idCounter, opsLeft, nsaves, setTok, savedTok, prev>>

\* Requests served one after another.
GetSession(r, i) == CanStart(r) /\ AcquireAndLoad(r, i)

\* Requests served concurrently: a request may arrive while earlier ones are
\* still being handled.
CanArrive(r) == \A q \in Requests : q < r => pc[q] # "idle"

GetSessionConcurrently(r, i) == CanArrive(r) /\ AcquireAndLoad(r, i)

Active(r) == pc[r] = "active"

SetAccessToken(r, t) ==
    /\ Active(r)
    /\ opsLeft > 0
    /\ LET S == SetToken(Heap, sd[held[r]], accessTokenCookie, Raw(t))
       IN /\ sess' = S.H.sess
          /\ opts' = S.H.opts
          /\ sd' = [sd EXCEPT ![held[r]] = S.s]
    /\ opsLeft' = opsLeft - 1
    /\ setTok' = [setTok EXCEPT ![r][accessTokenCookie] = t]
    /\ lastOp' = [op |-> "SetAccessToken", r |-> r, arg |-> t]
    /\ UNCHANGED <<exchangeVars, cacheVars, logoutVars, forceHTTPS, scheme, clearedTok, now, jar, reqCookies, pc, held, resp, pool, idCounter, nsaves, savedTok, prev>>

SetRefreshToken(r, t) ==
    /\ Active(r)
    /\ opsLeft > 0
    /\ LET S == SetToken(Heap, sd[held[r]], refreshTokenCookie, Raw(t))
       IN /\ sess' = S.H.sess
          /\ opts' = S.H.opts
          /\ sd' = [sd EXCEPT ![held[r]] = S.s]
    /\ opsLeft' = opsLeft - 1
    /\ setTok' = [setTok EXCEPT ![r][refreshTokenCookie] = t]
    /\ lastOp' = [op |-> "SetRefreshToken", r |-> r, arg |-> t]
    /\ UNCHANGED <<exchangeVars, cacheVars, logoutVars, forceHTTPS, scheme, clearedTok, now, jar, reqCookies, pc, held, resp, pool, idCounter, nsaves, savedTok, prev>>

\* SetAuthenticated that sets the flag and the ID but records no time.
SetAuthenticatedValuesNoStamp(H, s, value, id) ==
    LET H1 == IF value THEN [H EXCEPT !.sess[s.mainSession].ID = id] ELSE H
    IN SetValue(H1, s.mainSession, "authenticated", value)

\* SetAuthenticated that stamps created_at whatever the value is.
SetAuthenticatedValuesStampAlways(H, s, value, id) ==
    LET H1 == IF value THEN [H EXCEPT !.sess[s.mainSession].ID = id] ELSE H
    IN SetValue(SetValue(H1, s.mainSession, "created_at", now),
                s.mainSession, "authenticated", value)

\* SetAuthenticated that keeps the session ID it finds.
SetAuthenticatedValuesKeepID(H, s, value, id) ==
    LET H1 == IF value THEN SetValue(H, s.mainSession, "created_at", now) ELSE H
    IN SetValue(H1, s.mainSession, "authenticated", value)

SetAuthenticatedValues(H, s, value, id) ==
    LET H1 == IF value
              THEN SetValue([H EXCEPT !.sess[s.mainSession].ID = id],
                            s.mainSession, "created_at", now)
              ELSE H
    IN SetValue(H1, s.mainSession, "authenticated", value)

\* SetAuthenticated that sets the flag although no ID could be generated.
SetAuthenticatedOnFlagAnyway(H, s, value, ok, id) ==
    IF value /\ ~ok
    THEN [H |-> SetValue(H, s.mainSession, "authenticated", value), err |-> TRUE]
    ELSE [H |-> SetAuthenticatedValues(H, s, value, id), err |-> FALSE]

\* SetAuthenticated(value) on instance record s.  ok = FALSE is
\* generateSecureRandomString(32) failing (rand.Read): the call returns the
\* error before it assigns anything.  Otherwise id is the new identifier.
SetAuthenticatedOn(H, s, value, ok, id) ==
    IF value /\ ~ok
    THEN [H |-> H, err |-> TRUE]
    ELSE [H |-> SetAuthenticatedValues(H, s, value, id), err |-> FALSE]

\* SetAuthenticated(value) called by a handler; the random identifier is
\* modelled as a value never drawn before.
SetAuthenticated(r, value, ok) ==
    /\ Active(r)
    /\ opsLeft > 0
    /\ value \/ ok
    /\ LET S == SetAuthenticatedOn(Heap, sd[held[r]], value, ok, idCounter + 1)
       IN /\ sess' = S.H.sess
          /\ opts' = S.H.opts
          /\ lastOp' = [op |-> "SetAuthenticated", r |-> r,
                        arg |-> [value |-> value, ok |-> ok, err |-> S.err,
                                 before |-> [authenticated |-> AuthenticatedFlag(r),
                                             created_at |-> CreatedAt(r),
                                             id |-> MainID(r)]]]
    /\ idCounter' = IF value /\ ok THEN idCounter + 1 ELSE idCounter
    /\ opsLeft' = opsLeft - 1
    /\ UNCHANGED <<exchangeVars, cacheVars, logoutVars, forceHTTPS, scheme, clearedTok, now, jar, reqCookies, pc, held, resp, sd, pool, nsaves, setTok, savedTok, prev>>

\* SetCSRF, SetNonce, SetCodeVerifier, SetEmail, SetIncomingPath
SetMainString(r, key, v) ==
    /\ Active(r)
    /\ opsLeft > 0
    /\ LET H1 == SetValue(Heap, sd[held[r]].mainSession, key, v)
       IN /\ sess' = H1.sess
          /\ opts' = H1.opts
    /\ opsLeft' = opsLeft - 1
    /\ lastOp' = [op |-> "SetString", r |-> r, arg |-> [key |-> key, value |-> v]]
    /\ UNCHANGED <<exchangeVars, cacheVars, logoutVars, forceHTTPS, scheme, clearedTok, now, jar, reqCookies, pc, held, resp, sd, pool, idCounter, nsaves,
                   setTok, savedTok, prev>>

SetCSRF(r, v) == SetMainString(r, "csrf", v)
SetNonce(r, v) == SetMainString(r, "nonce", v)
SetCodeVerifier(r, v) == SetMainString(r, "code_verifier", v)
SetEmail(r, v) == SetMainString(r, "email", v)
SetIncomingPath(r, v) == SetMainString(r, "incoming_path", v)

\* Save(r, w) called by a handler.
\* The session.Save calls a Save of this instance makes when none fails.
SaveCalls(s) == 3 + Cardinality(DOMAIN s.accessTokenChunks)
                  + Cardinality(DOMAIN s.refreshTokenChunks)

\* Save(r, w) in which the session.Save call number failAt fails (0: none).
SaveAttempt(r, failAt) ==
    /\ Active(r)
    /\ opsLeft > 0
    /\ opsLeft' = opsLeft - 1
    /\ failAt \in 0..SaveCalls(sd[held[r]])
    /\ LET s == sd[held[r]]
       IN \E ordA \in Perms(DOMAIN s.accessTokenChunks), ordR \in Perms(DOMAIN s.refreshTokenChunks) :
            LET S == SaveSessions(Heap, s, r, SaveOptions(r, nsaves[r]), ordA, ordR, failAt)
            IN /\ sess' = S.H.sess
               /\ opts' = S.H.opts
               /\ resp' = [resp EXCEPT ![r] = @ \o S.written]
               /\ lastOp' = [op |-> "Save", r |-> r,
                             arg |-> [first |-> Len(resp[r]) + 1, err |-> S.err,
                                      failAt |-> failAt, calls |-> SaveCalls(s),
                                      ordA |-> ordA, ordR |-> ordR]]
    /\ nsaves' = [nsaves EXCEPT ![r] = @ + 1]
    /\ savedTok' = IF failAt = 0 THEN [savedTok EXCEPT ![r] = setTok[r]] ELSE savedTok
    /\ UNCHANGED <<exchangeVars, cacheVars, logoutVars, forceHTTPS, scheme, clearedTok, now, jar, reqCookies, pc, held, sd, pool, idCounter, setTok, prev>>

Save(r) == SaveAttempt(r, 0)

\* A Save one of whose writes is refused by the store.
SaveFails(r, failAt) == failAt > 0 /\ SaveAttempt(r, failAt)

\* Clear(r, w); w = FALSE is the nil writer.  With a writer, failAt is the
\* failing write of Clear's Save (0: none); the instance is detached from the
\* request and put back into the pool whatever Save returned.
ClearAttempt(r, w, failAt) ==
    /\ Active(r)
    /\ opsLeft > 0
    /\ opsLeft' = opsLeft - 1
    /\ failAt \in 0..(IF w THEN SaveCalls(sd[held[r]]) ELSE 0)
    /\ LET s == sd[held[r]]
           H1 == ClearSessions(Heap, s)
       IN IF w
          THEN \E ordA \in Perms(DOMAIN s.accessTokenChunks), ordR \in Perms(DOMAIN s.refreshTokenChunks) :
                 LET S == SaveSessions(H1, s, r, SaveOptions(r, nsaves[r]), ordA, ordR, failAt)
                 IN /\ sess' = S.H.sess
                    /\ opts' = S.H.opts
                    /\ resp' = [resp EXCEPT ![r] = @ \o S.written]
                    /\ nsaves' = [nsaves EXCEPT ![r] = @ + 1]
                    /\ lastOp' = [op |-> "Clear", r |-> r,
                                  arg |-> [w |-> w, first |-> Len(resp[r]) + 1, inst |-> held[r],
                                           failAt |-> failAt, err |-> S.err]]
          ELSE /\ sess' = H1.sess
               /\ opts' = H1.opts
               /\ lastOp' = [op |-> "Clear", r |-> r,
                             arg |-> [w |-> w, first |-> Len(resp[r]) + 1, inst |-> held[r],
                                      failAt |-> failAt, err |-> FALSE]]
               /\ UNCHANGED <<resp, nsaves>>
    /\ sd' = [sd EXCEPT ![held[r]].request = 0]
    /\ pool' = PoolPut(pool, held[r])
    /\ held' = [held EXCEPT ![r] = 0]
    /\ pc' = [pc EXCEPT ![r] = "cleared"]
    /\ savedTok' = IF w /\ failAt = 0 THEN [savedTok EXCEPT ![r] = [slot \in Slots |-> NoToken]]
                   ELSE savedTok
    /\ clearedTok' = IF w /\ failAt = 0
                     THEN [clearedTok EXCEPT ![r] =
                             {slot \in Slots : GetToken(Heap, sd[held[r]], slot) # <<>>}]
                     ELSE clearedTok
    /\ UNCHANGED <<exchangeVars, cacheVars, logoutVars, forceHTTPS, scheme, now, jar, reqCookies, idCounter, setTok, prev>>

Clear(r, w) == ClearAttempt(r, w, 0)

\* A Clear with a writer whose Save fails.
ClearFails(r, failAt) == failAt > 0 /\ ClearAttempt(r, TRUE, failAt)

\* The client's cookie of that name is altered, or the store's key has
\* changed since it was written: the store will not decode it.
Tamper(name) ==
    /\ name \in DOMAIN jar
    /\ \A n \in DOMAIN jar : jar[n] # Corrupt
    /\ jar' = [jar EXCEPT ![name] = Corrupt]
    /\ lastOp' = [op |-> "Tamper", r |-> 0, arg |-> name]
    /\ UNCHANGED <<exchangeVars, cacheVars, logoutVars, forceHTTPS, scheme, clearedTok, now, reqCookies, pc, held, resp, sd, pool, sess, opts, idCounter,
                   opsLeft, nsaves, setTok, savedTok, prev>>

(***************************************************************************)
(* The handler returns, the client applies the response's cookies, and the *)
(* request with its registry becomes garbage.  What the garbage collector  *)
(* can no longer reach is dropped from the state: the sessions that no     *)
(* pooled or held instance points to, and instances that were never given  *)
(* back to the pool.  prev keeps what the claims about the next request    *)
(* refer to.                                                               *)
(***************************************************************************)
InstanceRefs(s) ==
    ({s.mainSession, s.accessSession, s.refreshSession} \ {NIL})
        \cup {s.accessTokenChunks[i] : i \in DOMAIN s.accessTokenChunks}
        \cup {s.refreshTokenChunks[i] : i \in DOMAIN s.refreshTokenChunks}

Respond(r) ==
    /\ pc[r] \in {"active", "cleared", "expired", "error"}
    /\ jar' = ApplyCookies(jar, resp[r])
    /\ pc' = [pc EXCEPT ![r] = "done"]
    /\ LET running == {q \in Requests \ {r} : pc[q] = "active"}
           liveInst == {i \in DOMAIN sd : pool[i] > 0} \cup {held[q] : q \in running}
           liveRefs == UNION {InstanceRefs(sd[i]) : i \in liveInst}
                         \cup {k \in DOMAIN sess : k[1] \in running}
           liveOpts == {sess[k].Options : k \in liveRefs}
       IN /\ sd' = [i \in DOMAIN sd |-> IF i \in liveInst THEN sd[i] ELSE NewSessionData]
          /\ sess' = [k \in liveRefs |-> sess[k]]
          /\ opts' = [o \in liveOpts |-> opts[o]]
          /\ held' = [q \in Requests |-> IF q \in running THEN held[q] ELSE 0]
          /\ reqCookies' = [q \in Requests |-> IF q \in running THEN reqCookies[q] ELSE EmptyMap]
          /\ resp' = [q \in Requests |-> IF q \in running THEN resp[q] ELSE <<>>]
          /\ setTok' = [q \in Requests |-> IF q \in running THEN setTok[q]
                                           ELSE [slot \in Slots |-> NoToken]]
          /\ savedTok' = [q \in Requests |-> IF q \in running THEN savedTok[q]
                                             ELSE [slot \in Slots |-> NoToken]]
          /\ nsaves' = [q \in Requests |-> IF q \in running THEN nsaves[q] ELSE 0]
          /\ clearedTok' = [q \in Requests |-> IF q \in running THEN clearedTok[q] ELSE {}]
    /\ prev' = [r |-> r,
                saved |-> savedTok[r],
                nsaves |-> nsaves[r],
                outcome |-> pc[r],
                cleared |-> clearedTok[r],
                chunkedIn |-> [slot \in Slots |-> ChunkedToken(reqCookies[r], slot)],
                tokenCookiesIn |-> \E slot \in Slots : HasTokenCookies(reqCookies[r], slot)]
    /\ lastOp' = [op |-> "Respond", r |-> r, arg |-> 0]
    /\ UNCHANGED <<exchangeVars, cacheVars, logoutVars, forceHTTPS, scheme, now, pool, idCounter, opsLeft>>

Tick ==
    /\ now + TickHours <= MaxTicks * TickHours
    /\ now' = now + TickHours
    /\ lastOp' = [op |-> "Tick", r |-> 0, arg |-> 0]
    /\ UNCHANGED <<exchangeVars, cacheVars, logoutVars, forceHTTPS, scheme, clearedTok, jar, reqCookies, pc, held, resp, sd, pool, sess, opts, idCounter, opsLeft,
                   nsaves, setTok, savedTok, prev>>

Next ==
    \/ \E r \in Requests, i \in 1..MaxReq : GetSession(r, i)
    \/ \E r \in Requests, t \in Tokens : SetAccessToken(r, t)
    \/ \E r \in Requests, t \in Tokens : SetRefreshToken(r, t)
    \/ \E r \in Requests, value \in BOOLEAN, ok \in BOOLEAN : SetAuthenticated(r, value, ok)
    \/ \E r \in Requests, v \in StringValues : SetCSRF(r, v)
    \/ \E r \in Requests, v \in StringValues : SetNonce(r, v)
    \/ \E r \in Requests, v \in StringValues : SetCodeVerifier(r, v)
    \/ \E r \in Requests, v \in StringValues : SetEmail(r, v)
    \/ \E r \in Requests, v \in StringValues : SetIncomingPath(r, v)
    \/ \E r \in Requests : Save(r)
    \/ \E r \in Requests, w \in BOOLEAN : Clear(r, w)
    \/ \E r \in Requests : Respond(r)
    \/ Tick

Spec == Init /\ [][Next]_vars

(***************************************************************************)
(* The token operations alone, with a larger budget of calls: requests     *)
(* that load, set tokens, save and clear.                                  *)
(***************************************************************************)
InitTokens == InitWith(MaxTokenOps)

NextTokens ==
    \/ \E r \in Requests, i \in 1..MaxReq : GetSession(r, i)
    \/ \E r \in Requests, t \in Tokens : SetAccessToken(r, t)
    \/ \E r \in Requests, t \in Tokens : SetRefreshToken(r, t)
    \/ \E r \in Requests : Save(r)
    \/ \E r \in Requests, w \in BOOLEAN : Clear(r, w)
    \/ \E r \in Requests : Respond(r)

SpecTokens == InitTokens /\ [][NextTokens]_vars

(***************************************************************************)
(* Failures of the cookie store: cookies that do not decode when a request *)
(* is loaded, and writes that the store refuses during Save.               *)
(***************************************************************************)
\* A token stored inline and one stored in two chunks.
FaultTokens == {"tS", "tL"}

InitFaults == InitWith(MaxFaultOps)

NextFaults ==
    \/ \E r \in Requests, i \in 1..MaxReq : GetSession(r, i)
    \/ \E r \in Requests, t \in FaultTokens : SetAccessToken(r, t)
    \/ \E r \in Requests, t \in FaultTokens : SetRefreshToken(r, t)
    \/ \E r \in Requests : Save(r)
    \/ \E r \in Requests, k \in 1..MaxWrites : SaveFails(r, k)
    \/ \E r \in Requests, w \in BOOLEAN : Clear(r, w)
    \/ \E r \in Requests, k \in 1..MaxWrites : ClearFails(r, k)
    \/ \E name \in DOMAIN jar : Tamper(name)
    \/ \E r \in Requests : Respond(r)

SpecFaults == InitFaults /\ [][NextFaults]_vars

(***************************************************************************)
(* The cookie options: managers with and without forceHTTPS, requests of   *)
(* any scheme.                                                             *)
(***************************************************************************)
InitOptions ==
    /\ InitSessions(MaxOptionOps)
    /\ forceHTTPS \in BOOLEAN
    /\ scheme \in [Requests -> Schemes]
    /\ InitNoExchange

NextOptions ==
    \/ \E r \in Requests, i \in 1..MaxReq : GetSession(r, i)
    \/ \E r \in Requests : SetAccessToken(r, "tL")
    \/ \E r \in Requests : Save(r)
    \/ \E r \in Requests : Clear(r, TRUE)
    \/ \E r \in Requests : Respond(r)

SpecOptions == InitOptions /\ [][NextOptions]_vars

(***************************************************************************)
(* The sizes of what Save writes: every setter, with short and long        *)
(* arguments.                                                              *)
(***************************************************************************)
InitSizes == InitWith(MaxSizeOps)

NextSizes ==
    \/ \E r \in Requests, i \in 1..MaxReq : GetSession(r, i)
    \/ \E r \in Requests, t \in Tokens : SetAccessToken(r, t)
    \/ \E r \in Requests, t \in Tokens : SetRefreshToken(r, t)
    \/ \E r \in Requests, value \in BOOLEAN : SetAuthenticated(r, value, TRUE)
    \/ \E r \in Requests, v \in SizedValues : SetCSRF(r, v)
    \/ \E r \in Requests, v \in SizedValues : SetNonce(r, v)
    \/ \E r \in Requests, v \in SizedValues : SetCodeVerifier(r, v)
    \/ \E r \in Requests, v \in SizedValues : SetEmail(r, v)
    \/ \E r \in Requests, v \in SizedValues : SetIncomingPath(r, v)
    \/ \E r \in Requests : Save(r)
    \/ \E r \in Requests : Respond(r)

SpecSizes == InitSizes /\ [][NextSizes]_vars

(***************************************************************************)
(* The token exchange with the provider (exchangeTokens and its callers).  *)
(* Strings are values of small sets; "" is the empty string.               *)
(***************************************************************************)
clientID == "client-id"
clientSecret == "client-secret"

GrantTypes == {"authorization_code", "refresh_token", "client_credentials"}
Codes == {"", "code-1"}
RedirectURLs == {"", "https://app/callback"}
CodeVerifiers == {"", "verifier-1"}
RefreshTokens == {"", "refresh-1"}

\* url.Values.Set
FormSet(data, key, value) == (key :> value) @@ data

exchangeTokensFormAlwaysCode(grantType, codeOrToken, redirectURL, codeVerifier) ==
    LET data == [grant_type |-> grantType, client_id |-> clientID,
                 client_secret |-> clientSecret]
        withCode == FormSet(FormSet(data, "code", codeOrToken), "redirect_uri", redirectURL)
    IN IF grantType = "refresh_token"
       THEN FormSet(withCode, "refresh_token", codeOrToken)
       ELSE withCode

\* The form data that exchangeTokens posts, lines 85-101.
exchangeTokensForm(grantType, codeOrToken, redirectURL, codeVerifier) ==
    LET data == [grant_type |-> grantType, client_id |-> clientID,
                 client_secret |-> clientSecret]
    IN IF grantType = "authorization_code"
       THEN LET withCode == FormSet(FormSet(data, "code", codeOrToken),
                                    "redirect_uri", redirectURL)
            IN IF codeVerifier # ""
               THEN FormSet(withCode, "code_verifier", codeVerifier)
               ELSE withCode
       ELSE IF grantType = "refresh_token"
       THEN FormSet(data, "refresh_token", codeOrToken)
       ELSE data

\* The TokenResponse decoded from a well-formed body, and the absence of one.
TokenResponse == [id_token |-> "id-1", access_token |-> "access-1",
                  refresh_token |-> "refresh-2"]
NoResponse == [none |-> TRUE]

Statuses == {200, 201, 401}
Bodies == {"json", "malformed"}

\* CheckRedirect refuses the next request when via requests have been made.
checkRedirectBeyond(via) == via > maxRedirects

checkRedirect(via) == via >= maxRedirects

exchangeResultIgnoringStatus(status, body) ==
    IF body # "json"
    THEN [result |-> "error", cause |-> "decode", status |-> 0, response |-> NoResponse]
    ELSE [result |-> "ok", cause |-> "", status |-> 0, response |-> TokenResponse]

\* What exchangeTokens returns for the response that client.Do hands it,
\* lines 124-140.
exchangeResult(status, body) ==
    IF status # 200
    THEN [result |-> "error", cause |-> "status", status |-> status, response |-> NoResponse]
    ELSE IF body # "json"
    THEN [result |-> "error", cause |-> "decode", status |-> 0, response |-> NoResponse]
    ELSE [result |-> "ok", cause |-> "", status |-> 0, response |-> TokenResponse]

\* An invocation that returned an error without a response from the provider.
Failed(cause) ==
    [result |-> "error", cause |-> cause, status |-> 0, response |-> NoResponse]

Inflight == exchange.state = "inflight"

\* The invocation returns with what ret says.
Return(ret) ==
    exchange' = [exchange EXCEPT !.state = "returned", !.result = ret.result,
                                 !.cause = ret.cause, !.status = ret.status,
                                 !.response = ret.response]

\* exchangeTokens up to client.Do: the form is built and the request created
\* and posted to the token endpoint; urlOK = FALSE is a tokenURL from which
\* http.NewRequestWithContext cannot make a request.  call says who calls,
\* with which arguments and with which context: "caller" is the context of
\* the upstream caller, "background" is context.Background().
exchangeTokens(call, grantType, codeOrToken, redirectURL, codeVerifier) ==
    /\ ~Inflight
    /\ Len(tokenRequests) < MaxExchanges
    /\ \E urlOK \in BOOLEAN :
         LET data == exchangeTokensForm(grantType, codeOrToken, redirectURL, codeVerifier)
         IN /\ tokenRequests' = IF urlOK THEN Append(tokenRequests, data) ELSE tokenRequests
            /\ exchange' = [state |-> IF urlOK THEN "inflight" ELSE "returned",
                            caller |-> call.caller, ctx |-> call.ctx, data |-> data,
                            calls |-> IF urlOK THEN 1 ELSE 0,
                            via |-> IF urlOK THEN 1 ELSE 0, redirects |-> 0,
                            cancelled |-> FALSE, deadline |-> FALSE,
                            result |-> IF urlOK THEN "none" ELSE "error",
                            cause |-> IF urlOK THEN "" ELSE "request",
                            status |-> 0, response |-> NoResponse]
            /\ lastOp' = [op |-> call.caller, r |-> 0,
                          arg |-> [grantType |-> grantType, codeOrToken |-> codeOrToken,
                                   redirectURL |-> redirectURL, codeVerifier |-> codeVerifier,
                                   supplied |-> call.supplied, posted |-> urlOK]]
    /\ UNCHANGED <<sessionVars, cacheVars, logoutVars, enablePKCE>>

Exchange(grantType, codeOrToken, redirectURL, codeVerifier) ==
    exchangeTokens([caller |-> "exchangeTokens", ctx |-> "caller", supplied |-> codeVerifier],
                   grantType, codeOrToken, redirectURL, codeVerifier)

getNewTokenWithRefreshToken(refreshToken) ==
    exchangeTokens([caller |-> "getNewTokenWithRefreshToken", ctx |-> "background",
                    supplied |-> ""],
                   "refresh_token", refreshToken, "", "")

exchangeCodeForTokenAlwaysForward(code, redirectURL, codeVerifier) ==
    exchangeTokens([caller |-> "exchangeCodeForToken", ctx |-> "background",
                    supplied |-> codeVerifier],
                   "authorization_code", code, redirectURL, codeVerifier)

exchangeCodeForToken(code, redirectURL, codeVerifier) ==
    LET effectiveCodeVerifier == IF enablePKCE /\ codeVerifier # "" THEN codeVerifier ELSE ""
    IN exchangeTokens([caller |-> "exchangeCodeForToken", ctx |-> "background",
                       supplied |-> codeVerifier],
                      "authorization_code", code, redirectURL, effectiveCodeVerifier)

\* The provider answers with a response that is not a redirect; client.Do
\* returns it.
ProviderAnswers(status, body) ==
    /\ Inflight
    /\ Return(exchangeResult(status, body))
    /\ lastOp' = [op |-> "ProviderAnswers", r |-> 0, arg |-> [status |-> status, body |-> body]]
    /\ UNCHANGED <<sessionVars, cacheVars, logoutVars, enablePKCE, tokenRequests>>

\* The connection fails; client.Do returns an error.
TransportFails ==
    /\ Inflight
    /\ Return(Failed("transport"))
    /\ lastOp' = [op |-> "TransportFails", r |-> 0, arg |-> 0]
    /\ UNCHANGED <<sessionVars, cacheVars, logoutVars, enablePKCE, tokenRequests>>

\* The answer to the last request is a redirect: the client asks CheckRedirect
\* with the requests made so far and follows the redirect unless it refuses.
ProviderRedirects ==
    /\ Inflight
    /\ IF checkRedirect(exchange.via)
       THEN exchange' = [exchange EXCEPT !.state = "returned", !.result = "error",
                                         !.cause = "redirects",
                                         !.redirects = @ + 1]
       ELSE exchange' = [exchange EXCEPT !.via = @ + 1, !.redirects = @ + 1]
    /\ lastOp' = [op |-> "ProviderRedirects", r |-> 0, arg |-> 0]
    /\ UNCHANGED <<sessionVars, cacheVars, logoutVars, enablePKCE, tokenRequests>>

\* The upstream caller gives up: its context is cancelled.
CancelUpstream ==
    /\ Inflight
    /\ ~exchange.cancelled
    /\ exchange' = [exchange EXCEPT !.cancelled = TRUE]
    /\ lastOp' = [op |-> "CancelUpstream", r |-> 0, arg |-> 0]
    /\ UNCHANGED <<sessionVars, cacheVars, logoutVars, enablePKCE, tokenRequests>>

\* client.Do returns when the context of its request is done.
ContextUnblocks ==
    /\ Inflight
    /\ exchange.ctx = "caller"
    /\ exchange.cancelled
    /\ Return(Failed("context"))
    /\ lastOp' = [op |-> "ContextUnblocks", r |-> 0, arg |-> 0]
    /\ UNCHANGED <<sessionVars, cacheVars, logoutVars, enablePKCE, tokenRequests>>

\* The time of t.httpClient.Timeout has passed since the call.
DeadlinePasses ==
    /\ Inflight
    /\ ~exchange.deadline
    /\ exchange' = [exchange EXCEPT !.deadline = TRUE]
    /\ lastOp' = [op |-> "DeadlinePasses", r |-> 0, arg |-> 0]
    /\ UNCHANGED <<sessionVars, cacheVars, logoutVars, enablePKCE, tokenRequests>>

\* client.Do returns when the client's timeout is reached.
TimeoutFires ==
    /\ Inflight
    /\ exchange.deadline
    /\ Return(Failed("timeout"))
    /\ lastOp' = [op |-> "TimeoutFires", r |-> 0, arg |-> 0]
    /\ UNCHANGED <<sessionVars, cacheVars, logoutVars, enablePKCE, tokenRequests>>

InitExchange ==
    /\ InitSessions(0)
    /\ forceHTTPS = FALSE
    /\ scheme = [r \in Requests |-> Http]
    /\ enablePKCE \in BOOLEAN
    /\ tokenRequests = <<>>
    /\ exchange = NoExchange
    /\ InitNoCache
    /\ InitNoLogout

NextExchange ==
    \/ \E g \in GrantTypes, c \in Codes \cup RefreshTokens, u \in RedirectURLs, v \in CodeVerifiers :
          Exchange(g, c, u, v)
    \/ \E t \in RefreshTokens : getNewTokenWithRefreshToken(t)
    \/ \E c \in Codes, u \in RedirectURLs, v \in CodeVerifiers : exchangeCodeForToken(c, u, v)
    \/ \E status \in Statuses, body \in Bodies : ProviderAnswers(status, body)
    \/ TransportFails

SpecExchange == InitExchange /\ [][NextExchange]_vars

(***************************************************************************)
(* Exchanges that wait for the provider while the upstream caller may give *)
(* up and the client's timeout may be reached.  client.Do returns once the *)
(* context of its request is done and once the client's timeout is         *)
(* reached: these two steps are taken when they stay possible.  Nothing    *)
(* makes the provider answer, the caller give up or the time pass.         *)
(***************************************************************************)
NextExchangeLive ==
    \/ \E g \in GrantTypes, c \in Codes, v \in CodeVerifiers : Exchange(g, c, "", v)
    \/ \E t \in RefreshTokens : getNewTokenWithRefreshToken(t)
    \/ \E c \in Codes, v \in CodeVerifiers : exchangeCodeForToken(c, "", v)
    \/ \E status \in Statuses, body \in Bodies : ProviderAnswers(status, body)
    \/ CancelUpstream
    \/ ContextUnblocks
    \/ DeadlinePasses
    \/ TimeoutFires

SpecExchangeLive ==
    /\ InitExchange
    /\ [][NextExchangeLive]_vars
    /\ WF_vars(ContextUnblocks)
    /\ WF_vars(TimeoutFires)

(***************************************************************************)
(* Redirect chains: a refresh whose answers are redirects.                 *)
(***************************************************************************)
NextRedirects ==
    \/ getNewTokenWithRefreshToken("refresh-1")
    \/ ProviderRedirects
    \/ \E status \in Statuses, body \in Bodies : ProviderAnswers(status, body)
    \/ TransportFails

SpecRedirects == InitExchange /\ [][NextRedirects]_vars

(***************************************************************************)
(* The token cache.  TokenCache puts its keys into a namespace and hands   *)
(* them to a Cache, whose code is not part of the source at hand: Cache is *)
(* modelled from the specification, as a mapping from keys to a value and  *)
(* an absolute expiry, now + ttl at the time of Set; an entry is expired   *)
(* once the time is no longer before its expiry.                           *)
(***************************************************************************)
CacheTokens == {<<"a">>, <<"t-", "a">>}
ClaimSets == {"claims-1", "claims-2"}
TTLs == {0 - TickHours, 0, TickHours}

Expired(entry, time) == time >= entry.expiry

CacheSet(cache, time, key, value, ttl) ==
    (key :> [value |-> value, expiry |-> time + ttl]) @@ cache

CacheGetIgnoringExpiry(cache, time, key) ==
    IF key \in DOMAIN cache
    THEN [value |-> cache[key].value, found |-> TRUE]
    ELSE [value |-> NIL, found |-> FALSE]

CacheGet(cache, time, key) ==
    IF key \in DOMAIN cache /\ ~Expired(cache[key], time)
    THEN [value |-> cache[key].value, found |-> TRUE]
    ELSE [value |-> NIL, found |-> FALSE]

CacheDelete(cache, key) == [k \in DOMAIN cache \ {key} |-> cache[k]]

CacheCleanupEverything(cache, time) == EmptyMap

CacheCleanup(cache, time) ==
    [k \in {x \in DOMAIN cache : ~Expired(cache[x], time)} |-> cache[k]]

\* token = "t-" + token
Namespaced(token) == <<"t-">> \o token

\* A claims mapping as a value of the cache, and the type assertion
\* value.(map[string]interface{}).
ClaimsValue(claims) == [type |-> "claims", claims |-> claims]
IsClaims(value) == value # NIL /\ value.type = "claims"

\* TokenCache.Get
TokenCacheLookup(cache, time, token) ==
    LET e == CacheGet(cache, time, Namespaced(token))
    IN IF ~e.found THEN [claims |-> NIL, found |-> FALSE]
       ELSE IF IsClaims(e.value) THEN [claims |-> e.value.claims, found |-> TRUE]
       ELSE [claims |-> NIL, found |-> FALSE]

TokenCacheSet(token, claims, ttl) ==
    /\ tokenCache' = CacheSet(tokenCache, now, Namespaced(token), ClaimsValue(claims), ttl)
    /\ cacheSets' = (token :> [claims |-> claims, expiry |-> now + ttl]) @@ cacheSets
    /\ lastOp' = [op |-> "TokenCacheSet", r |-> 0,
                  arg |-> [token |-> token, claims |-> claims, ttl |-> ttl]]
    /\ UNCHANGED <<sessionVars, exchangeVars, logoutVars>>

TokenCacheGet(token) ==
    /\ lastOp' = [op |-> "TokenCacheGet", r |-> 0,
                  arg |-> [token |-> token,
                           result |-> TokenCacheLookup(tokenCache, now, token)]]
    /\ UNCHANGED <<sessionVars, exchangeVars, logoutVars, cacheVars>>

TokenCacheDelete(token) ==
    /\ tokenCache' = CacheDelete(tokenCache, Namespaced(token))
    /\ cacheSets' = [t \in DOMAIN cacheSets \ {token} |-> cacheSets[t]]
    /\ lastOp' = [op |-> "TokenCacheDelete", r |-> 0, arg |-> [token |-> token]]
    /\ UNCHANGED <<sessionVars, exchangeVars, logoutVars>>

TokenCacheCleanup ==
    /\ tokenCache' = CacheCleanup(tokenCache, now)
    /\ lastOp' = [op |-> "TokenCacheCleanup", r |-> 0, arg |-> 0]
    /\ UNCHANGED <<sessionVars, exchangeVars, logoutVars, cacheSets>>

InitCache == InitWith(0)

NextCache ==
    \/ \E token \in CacheTokens, claims \in ClaimSets, ttl \in TTLs :
          TokenCacheSet(token, claims, ttl)
    \/ \E token \in CacheTokens : TokenCacheGet(token)
    \/ \E token \in CacheTokens : TokenCacheDelete(token)
    \/ TokenCacheCleanup
    \/ Tick

SpecCache == InitCache /\ [][NextCache]_vars

(***************************************************************************)
(* Logout.  URLs are sequences of characters; the two parameter names and  *)
(* the texts of tokens are single symbols of the alphabet, as none of the  *)
(* operations looks inside them.                                           *)
(***************************************************************************)
IdTokenHint == <<"id_token_hint">>
PostLogoutParam == <<"post_logout_redirect_uri">>

\* A control character.
Ctl == "\n"

\* The symbols of keys, in byte order.
Alphabet == <<Ctl, "#", "%", "&", "/", "2", "3", "5", ":", ";", "=", "?", "A", "B", "D", "F",
              "a", "c", "h", "i", "id_token_hint", "o", "p", "post_logout_redirect_uri",
              "s", "t", "x">>

Rank(c) == CHOOSE i \in DOMAIN Alphabet : Alphabet[i] = c

\* a < b as strings.
RECURSIVE StrLess(_, _)
StrLess(a, b) ==
    IF b = <<>> THEN FALSE
    ELSE IF a = <<>> THEN TRUE
    ELSE IF Head(a) = Head(b) THEN StrLess(Tail(a), Tail(b))
    ELSE Rank(Head(a)) < Rank(Head(b))

\* strings.Cut
StrCut(s, sep) ==
    IF \E i \in DOMAIN s : s[i] = sep
    THEN LET i == CHOOSE j \in DOMAIN s : s[j] = sep /\ \A k \in 1..(j - 1) : s[k] # sep
         IN [before |-> SubSeq(s, 1, i - 1), after |-> SubSeq(s, i + 1, Len(s)), found |-> TRUE]
    ELSE [before |-> s, after |-> <<>>, found |-> FALSE]

\* The bytes url.QueryEscape escapes, with their escapes.
Escapes ==
    (":" :> <<"%", "3", "A">>) @@ ("/" :> <<"%", "2", "F">>) @@ ("?" :> <<"%", "3", "F">>)
      @@ ("&" :> <<"%", "2", "6">>) @@ ("=" :> <<"%", "3", "D">>) @@ ("%" :> <<"%", "2", "5">>)
      @@ ("#" :> <<"%", "2", "3">>) @@ (";" :> <<"%", "3", "B">>) @@ (Ctl :> <<"%", "0", "A">>)

\* url.QueryEscape
RECURSIVE QueryEscape(_)
QueryEscape(s) ==
    IF s = <<>> THEN <<>>
    ELSE (IF Head(s) \in DOMAIN Escapes THEN Escapes[Head(s)] ELSE <<Head(s)>>)
            \o QueryEscape(Tail(s))

\* url.QueryUnescape: ok is FALSE for a "%" that no two hex digits follow.
RECURSIVE QueryUnescape(_)
QueryUnescape(s) ==
    IF s = <<>> THEN [ok |-> TRUE, s |-> <<>>]
    ELSE IF Head(s) = "%"
    THEN IF Len(s) >= 3 /\ \E c \in DOMAIN Escapes : Escapes[c] = SubSeq(s, 1, 3)
         THEN LET c == CHOOSE d \in DOMAIN Escapes : Escapes[d] = SubSeq(s, 1, 3)
                  rest == QueryUnescape(SubSeq(s, 4, Len(s)))
              IN [ok |-> rest.ok, s |-> <<c>> \o rest.s]
         ELSE [ok |-> FALSE, s |-> <<>>]
    ELSE LET rest == QueryUnescape(Tail(s))
         IN [ok |-> rest.ok, s |-> <<Head(s)>> \o rest.s]

NoURL == [Front |-> <<>>, RawQuery |-> <<>>, Fragment |-> <<>>]

\* url.Parse: the fragment and the query are cut off; a control character or
\* a missing scheme is an error.
urlParse(rawURL) ==
    LET f == StrCut(rawURL, "#")
        q == StrCut(f.before, "?")
    IN IF (\E i \in DOMAIN f.before : f.before[i] = Ctl)
            \/ (f.before # <<>> /\ f.before[1] = ":")
       THEN [err |-> TRUE, u |-> NoURL]
       ELSE [err |-> FALSE,
             u |-> [Front |-> q.before, RawQuery |-> q.after, Fragment |-> f.after]]

\* URL.String
urlString(u) ==
    u.Front \o (IF u.RawQuery # <<>> THEN <<"?">> \o u.RawQuery ELSE <<>>)
            \o (IF u.Fragment # <<>> THEN <<"#">> \o u.Fragment ELSE <<>>)

\* url.ParseQuery, as URL.Query calls it: the pairs are separated by "&"; a
\* pair with a semicolon or a bad escape is left out.
RECURSIVE ParseQuery(_, _)
ParseQuery(query, m) ==
    IF query = <<>> THEN m
    ELSE LET c == StrCut(query, "&")
             kv == StrCut(c.before, "=")
             key == QueryUnescape(kv.before)
             value == QueryUnescape(kv.after)
             bad == c.before = <<>> \/ (\E i \in DOMAIN c.before : c.before[i] = ";")
                       \/ ~key.ok \/ ~value.ok
             old == IF key.s \in DOMAIN m THEN m[key.s] ELSE <<>>
         IN ParseQuery(c.after, IF bad THEN m ELSE (key.s :> Append(old, value.s)) @@ m)

\* URL.Query
urlQuery(u) == ParseQuery(u.RawQuery, EmptyMap)

\* Values.Set
ValuesSet(q, key, value) == (key :> <<value>>) @@ q

RECURSIVE EncodeValues(_, _)
EncodeValues(key, values) ==
    IF values = <<>> THEN <<>>
    ELSE QueryEscape(key) \o <<"=">> \o QueryEscape(Head(values))
           \o (IF Tail(values) = <<>> THEN <<>> ELSE <<"&">> \o EncodeValues(key, Tail(values)))

\* Values.Encode: the keys in sorted order.
RECURSIVE ValuesEncode(_, _)
ValuesEncode(q, keys) ==
    IF keys = {} THEN <<>>
    ELSE LET key == CHOOSE k \in keys : \A other \in keys \ {k} : StrLess(k, other)
         IN EncodeValues(key, q[key])
              \o (IF keys = {key} THEN <<>> ELSE <<"&">> \o ValuesEncode(q, keys \ {key}))

\* BuildLogoutURL that sets post_logout_redirect_uri whatever it is.
BuildLogoutURLAlwaysRedirects(rawURL, idToken, redirectURI) ==
    LET p == urlParse(rawURL)
        q == ValuesSet(ValuesSet(urlQuery(p.u), IdTokenHint, idToken),
                       PostLogoutParam, redirectURI)
    IN IF p.err THEN [url |-> <<>>, err |-> TRUE]
       ELSE [url |-> urlString([p.u EXCEPT !.RawQuery = ValuesEncode(q, DOMAIN q)]),
             err |-> FALSE]

BuildLogoutURL(rawURL, idToken, redirectURI) ==
    LET p == urlParse(rawURL)
        q1 == ValuesSet(urlQuery(p.u), IdTokenHint, idToken)
        q2 == IF redirectURI # <<>> THEN ValuesSet(q1, PostLogoutParam, redirectURI) ELSE q1
    IN IF p.err THEN [url |-> <<>>, err |-> TRUE]
       ELSE [url |-> urlString([p.u EXCEPT !.RawQuery = ValuesEncode(q2, DOMAIN q2)]),
             err |-> FALSE]

\* "https://i/o"
ProviderLogout == Https \o <<":", "/", "/", "i", "/", "o">>

\* End-session URLs: none, without query, with a parameter, with an
\* id_token_hint of its own between unsorted parameters, with a repeated
\* parameter, an escaped value, a pair that does not decode and a fragment,
\* with a control character, and without scheme.
EndSessionURLs ==
    {<<>>,
     ProviderLogout,
     ProviderLogout \o <<"?", "c", "=", "x">>,
     ProviderLogout \o <<"?">> \o IdTokenHint \o <<"=", "x", "&", "c", "=", "x", "&", "a", "=", "x">>,
     ProviderLogout \o <<"?", "c", "=", "%", "2", "F", "&", "a", "=", "%", "x", "&", "c", "=", "x",
                         "#", "s">>,
     Https \o <<":", "/", "/", "i", "/", Ctl, "o">>,
     <<":", "o">>}

\* ID tokens: empty, plain, and with bytes that need escaping.
IDTokens == {<<>>, <<"x">>, <<"a", "/", "c">>, <<"a", "=", "c", "&", "x">>}

\* Post-logout URLs: none, absolute, a path, a path with a query, and a
\* relative path whose first segment begins with "http".
PostLogoutURIs ==
    {<<>>,
     Https \o <<":", "/", "/", "a", "/">>,
     <<"/", "o">>,
     <<"/", "o", "?", "a", "=", "x">>,
     Http \o <<"x", "/", "o">>}

\* A call of BuildLogoutURL.
BuildLogoutURLCall(rawURL, idToken, redirectURI) ==
    /\ lastOp' = [op |-> "BuildLogoutURL", r |-> 0,
                  arg |-> [endSessionURL |-> rawURL, idToken |-> idToken,
                           postLogoutRedirectURI |-> redirectURI,
                           ret |-> BuildLogoutURL(rawURL, idToken, redirectURI)]]
    /\ UNCHANGED <<sessionVars, exchangeVars, cacheVars, logoutVars>>

NextLogoutURL ==
    \E rawURL \in EndSessionURLs, idToken \in IDTokens, redirectURI \in PostLogoutURIs :
        BuildLogoutURLCall(rawURL, idToken, redirectURI)

SpecLogoutURL == InitWith(0) /\ [][NextLogoutURL]_vars

\* The hosts and schemes determineHost and determineScheme find for a request.
Hosts == {<<"a">>}
RequestSchemes == {Http, Https}

\* fmt.Sprintf("%s://%s", scheme, host)
BaseURL(sch, host) == sch \o <<":", "/", "/">> \o host

\* The text of a token, one symbol per piece of the token.
TokenText(token) == [i \in DOMAIN token |-> ToString(token[i])]

\* handleLogout, lines 272-277: the post-logout destination.
postLogoutURL(sch, host) ==
    IF postLogoutRedirectURI = <<>> THEN BaseURL(sch, host) \o <<"/">>
    ELSE IF ~HasPrefix(postLogoutRedirectURI, Http)
    THEN BaseURL(sch, host) \o postLogoutRedirectURI
    ELSE postLogoutRedirectURI

HTTPError == [status |-> 500, location |-> <<>>]
Redirect(url) == [status |-> 302, location |-> url]
NoReply == [status |-> 0, location |-> <<>>]

\* handleLogout that goes to the provider whenever there is an end-session URL.
logoutReplyIgnoringToken(accessToken, sch, host) ==
    IF endSessionURL # <<>>
    THEN LET B == BuildLogoutURL(endSessionURL, accessToken, postLogoutURL(sch, host))
         IN IF B.err THEN HTTPError ELSE Redirect(B.url)
    ELSE Redirect(postLogoutURL(sch, host))

\* handleLogout, lines 279-291: the answer once the session is cleared.
logoutReply(accessToken, sch, host) ==
    IF endSessionURL # <<>> /\ accessToken # <<>>
    THEN LET B == BuildLogoutURL(endSessionURL, accessToken, postLogoutURL(sch, host))
         IN IF B.err THEN HTTPError ELSE Redirect(B.url)
    ELSE Redirect(postLogoutURL(sch, host))

(***************************************************************************)
(* handleLogout(rw, req): GetSession on the instance i the pool hands out  *)
(* (see AcquireAndLoad), GetAccessToken, Clear(req, rw) in which the       *)
(* session.Save call number failAt fails (0: none), and the answer.        *)
(***************************************************************************)
handleLogout(r, i, failAt, sch, host) ==
    /\ CanStart(r)
    /\ opsLeft > 0
    /\ opsLeft' = opsLeft - 1
    /\ i \in 1..(Len(sd) + 1)
    /\ i <= Len(sd) => pool[i] > 0
    /\ reqCookies' = [reqCookies EXCEPT ![r] = jar]
    /\ LET fresh == i > Len(sd)
           L == LoadSession(r, IF fresh THEN NewSessionData ELSE sd[i])
           sd1 == IF fresh THEN Append(sd, L.s) ELSE [sd EXCEPT ![i] = L.s]
           pool1 == IF fresh THEN Append(pool, 0) ELSE PoolGet(pool, i)
           accessToken == GetToken(L.H, L.s, accessTokenCookie)
       IN IF L.result # "ok"
          THEN /\ failAt = 0
               /\ sd' = sd1
               /\ sess' = L.H.sess
               /\ opts' = L.H.opts
               /\ pool' = IF Released(L.result) THEN PoolPut(pool1, i) ELSE pool1
               /\ held' = [held EXCEPT ![r] = IF Released(L.result) THEN 0 ELSE i]
               /\ pc' = [pc EXCEPT ![r] = L.result]
               /\ lastOp' = [op |-> "handleLogout", r |-> r,
                             arg |-> [inst |-> i, loaded |-> L.result, cleared |-> FALSE,
                                      accessToken |-> <<>>, scheme |-> sch, host |-> host,
                                      first |-> Len(resp[r]) + 1,
                                      reply |-> IF L.result = "panic" THEN NoReply
                                                ELSE HTTPError]]
               /\ UNCHANGED <<resp, nsaves, savedTok, clearedTok>>
          ELSE /\ failAt \in 0..SaveCalls(L.s)
               /\ \E ordA \in Perms(DOMAIN L.s.accessTokenChunks),
                     ordR \in Perms(DOMAIN L.s.refreshTokenChunks) :
                    LET S == SaveSessions(ClearSessions(L.H, L.s), L.s, r,
                                          SaveOptions(r, nsaves[r]), ordA, ordR, failAt)
                    IN /\ sess' = S.H.sess
                       /\ opts' = S.H.opts
                       /\ resp' = [resp EXCEPT ![r] = @ \o S.written]
                       /\ lastOp' = [op |-> "handleLogout", r |-> r,
                                     arg |-> [inst |-> i, loaded |-> L.result,
                                              cleared |-> ~S.err,
                                              accessToken |-> TokenText(accessToken),
                                              scheme |-> sch, host |-> host,
                                              first |-> Len(resp[r]) + 1,
                                              reply |-> IF S.err THEN HTTPError
                                                        ELSE logoutReply(TokenText(accessToken),
                                                                         sch, host)]]
               /\ nsaves' = [nsaves EXCEPT ![r] = @ + 1]
               /\ sd' = [sd1 EXCEPT ![i].request = 0]
               /\ pool' = PoolPut(pool1, i)
               /\ held' = [held EXCEPT ![r] = 0]
               /\ pc' = [pc EXCEPT ![r] = "cleared"]
               /\ savedTok' = IF failAt = 0
                              THEN [savedTok EXCEPT ![r] = [slot \in Slots |-> NoToken]]
                              ELSE savedTok
               /\ clearedTok' = IF failAt = 0
                                THEN [clearedTok EXCEPT ![r] =
                                        {slot \in Slots : GetToken(L.H, L.s, slot) # <<>>}]
                                ELSE clearedTok
    /\ UNCHANGED <<exchangeVars, cacheVars, logoutVars, forceHTTPS, scheme, now, jar, idCounter,
                   setTok, prev>>

\* The configurations of the logout: no end-session URL, one that parses and
\* one that does not; every post-logout URL.
LogoutEndSessionURLs ==
    {<<>>, ProviderLogout \o <<"?", "c", "=", "x">>, Https \o <<":", "/", "/", "i", "/", Ctl, "o">>}

InitLogout ==
    /\ InitSessions(MaxLogoutOps)
    /\ forceHTTPS = FALSE
    /\ scheme = [r \in Requests |-> Http]
    /\ enablePKCE = FALSE
    /\ tokenRequests = <<>>
    /\ exchange = NoExchange
    /\ InitNoCache
    /\ endSessionURL \in LogoutEndSessionURLs
    /\ postLogoutRedirectURI \in PostLogoutURIs

NextLogout ==
    \/ \E r \in Requests, i \in 1..MaxReq : GetSession(r, i)
    \/ \E r \in Requests, t \in {"tS", "tL"} : SetAccessToken(r, t)
    \/ \E r \in Requests : Save(r)
    \/ \E r \in Requests : Respond(r)
    \/ \E r \in Requests, i \in 1..MaxReq, failAt \in 0..MaxWrites,
          sch \in RequestSchemes, host \in Hosts : handleLogout(r, i, failAt, sch, host)

SpecLogout == InitLogout /\ [][NextLogout]_vars

(***************************************************************************)
(* Logout of sessions that have expired, whose cookies do not decode, or   *)
(* whose cookies the store refuses to write.  The middleware has no        *)
(* end-session URL and no post-logout URL.                                 *)
(***************************************************************************)
InitLogoutFaults == InitWith(MaxLogoutFaultOps)

NextLogoutFaults ==
    \/ \E r \in Requests, i \in 1..MaxReq : GetSession(r, i)
    \/ \E r \in Requests : SetAuthenticated(r, TRUE, TRUE)
    \/ \E r \in Requests : Save(r)
    \/ \E r \in Requests : Respond(r)
    \/ \E name \in DOMAIN jar : Tamper(name)
    \/ Tick
    \/ \E r \in Requests, i \in 1..MaxReq, failAt \in 0..MaxWrites :
          handleLogout(r, i, failAt, Http, <<"a">>)

SpecLogoutFaults == InitLogoutFaults /\ [][NextLogoutFaults]_vars

(***************************************************************************)
(* Concurrent requests sharing the pool.                                   *)
(***************************************************************************)
InitConcurrent == InitWith(MaxConcurrentOps)

NextConcurrent ==
    \/ \E r \in Requests, i \in 1..MaxReq : GetSessionConcurrently(r, i)
    \/ \E r \in Requests : SetAuthenticated(r, TRUE, TRUE)
    \/ \E r \in Requests : Save(r)
    \/ \E r \in Requests, w \in BOOLEAN : Clear(r, w)
    \/ \E r \in Requests : ClearFails(r, 1)
    \/ \E name \in DOMAIN jar : Tamper(name)
    \/ \E r \in Requests : Respond(r)

SpecConcurrent == InitConcurrent /\ [][NextConcurrent]_vars

(***************************************************************************)
(* Properties.                                                             *)
(***************************************************************************)
\* The cookies the client holds once it has applied what request r's
\* response carries so far.
ClientAfter(r) == ApplyCookies(reqCookies[r], resp[r])

\* C1: when a slot's token that the client holds in chunk cookies 0..n-1 is
\* overwritten by a token of m < n chunks and saved, the response of that Save
\* expires every old chunk cookie that is not reused (the client no longer
\* holds cookies m..n-1), and the next request's load followed by the getter
\* returns the new token.
C1_OverwriteExpiresOldChunks ==
    \A r \in Requests, slot \in Slots :
        /\ ( /\ lastOp.op = "Save" /\ lastOp.r = r
             /\ ChunkedToken(reqCookies[r], slot) # NoToken
             /\ savedTok[r][slot] # NoToken
             /\ NChunks(savedTok[r][slot]) < NChunks(ChunkedToken(reqCookies[r], slot)) )
           => \A i \in NChunks(savedTok[r][slot]) .. (NChunks(ChunkedToken(reqCookies[r], slot)) - 1) :
                 CookieName(slot, i) \notin DOMAIN ClientAfter(r)
        /\ ( /\ lastOp.op = "GetSession" /\ lastOp.r = r /\ Active(r)
             /\ prev.chunkedIn[slot] # NoToken
             /\ prev.saved[slot] # NoToken
             /\ NChunks(prev.saved[slot]) < NChunks(prev.chunkedIn[slot]) )
           => GetToken(Heap, sd[held[r]], slot) = Raw(prev.saved[slot])

\* C2: every cookie that Clear(r, w) with a writer writes (main, access,
\* refresh and every loaded chunk) carries MaxAge = -1 and an empty value map.
C2_ClearWritesExpiredEmptyCookies ==
    \A r \in Requests :
        (lastOp.op = "Clear" /\ lastOp.r = r /\ lastOp.arg.w)
        => \A k \in lastOp.arg.first .. Len(resp[r]) :
              resp[r][k].MaxAge = 0 - 1 /\ resp[r][k].Values = EmptyMap

\* C3: a load whose main cookie has a created_at more than 24h in the past
\* clears the session state and returns the SessionExpired error, on a newly
\* constructed instance as on a reused one, and leaves the instance in the
\* pool exactly once.
C3_ExpiredLoadClearsAndPools ==
    \A r \in Requests :
        ( /\ lastOp.op = "GetSession" /\ lastOp.r = r
          /\ BaseName(mainCookieName) \in DOMAIN reqCookies[r]
          /\ "created_at" \in DOMAIN reqCookies[r][BaseName(mainCookieName)]
          /\ TimedOut(reqCookies[r][BaseName(mainCookieName)]["created_at"]) )
        => /\ pc[r] = "expired"
           /\ held[r] = 0
           /\ pool[lastOp.arg.inst] = 1
           /\ MainValues(Heap, sd[lastOp.arg.inst]) = EmptyMap

\* A successful SetAuthenticated(true) on request r was the last step.
Authenticating(r) ==
    /\ lastOp.op = "SetAuthenticated" /\ lastOp.r = r
    /\ lastOp.arg.value /\ lastOp.arg.ok

\* C4 as the specification states it: created_at is written only when
\* authentication goes from false to true; SetAuthenticated(true) on an
\* already-authenticated session, SetAuthenticated(false), the token setters,
\* the string setters and Save never change it.
C4_CreatedAtOnlyOnFalseToTrue ==
    [][\A r \in Requests :
         (Active(r) /\ Active(r)' /\ CreatedAt(r)' # CreatedAt(r))
         => (Authenticating(r)' /\ ~AuthenticatedFlag(r))]_vars

\* C4, amended: created_at is written only by a successful
\* SetAuthenticated(true), and by every such call, which sets it to the
\* current time also when the session is already authenticated;
\* SetAuthenticated(false), the token setters, the string setters and Save
\* never change it.
C4_CreatedAtOnlyBySetAuthenticatedTrue ==
    [][\A r \in Requests :
         (Active(r) /\ Active(r)')
         => /\ CreatedAt(r)' # CreatedAt(r) => Authenticating(r)'
            /\ Authenticating(r)' => CreatedAt(r)' = now']_vars

\* An already-authenticated session was authenticated again at a later time,
\* and its created_at moved.
C4_Witness ==
    \E r \in Requests :
        /\ Active(r) /\ Authenticating(r)
        /\ lastOp.arg.before.authenticated
        /\ lastOp.arg.before.created_at # NoTime
        /\ CreatedAt(r) # lastOp.arg.before.created_at

\* C5: a successful SetAuthenticated(true) replaces the session ID with a
\* fresh value different from the previous one, sets created_at to the
\* current time and sets the flag; SetAuthenticated(false) clears the flag and
\* leaves ID and created_at as they are.
C5_SetAuthenticatedRotatesID ==
    [][\A r \in Requests :
         (Active(r) /\ lastOp'.op = "SetAuthenticated" /\ lastOp'.r = r /\ lastOp'.arg.ok)
         => IF lastOp'.arg.value
            THEN /\ MainID(r)' # MainID(r)
                 /\ MainID(r)' \notin {sess[k].ID : k \in DOMAIN sess}
                 /\ CreatedAt(r)' = now'
                 /\ AuthenticatedFlag(r)'
            ELSE /\ MainID(r)' = MainID(r)
                 /\ CreatedAt(r)' = CreatedAt(r)
                 /\ ~AuthenticatedFlag(r)']_vars

\* A session that already had an ID from an earlier authentication was
\* authenticated again and got another ID.
C5_Witness ==
    \E r \in Requests :
        /\ Active(r) /\ Authenticating(r)
        /\ lastOp.arg.before.id # 0
        /\ MainID(r) # lastOp.arg.before.id
        /\ CreatedAt(r) = now

\* C6: GetAuthenticated returns true exactly when the flag is set and no more
\* than 24h have passed since created_at; once more than 24h have passed it
\* returns false although the stored flag is still true, and it stays false
\* as time advances unless SetAuthenticated(true) is called again.
C6_AuthenticatedIffFlagAndFresh ==
    /\ [](\A r \in Requests :
            Active(r) => GetAuthenticated(r) =
                           (AuthenticatedFlag(r) /\ now - CreatedAt(r) <= absoluteSessionTimeout))
    /\ [][\A r \in Requests :
            ( /\ Active(r) /\ Active(r)'
              /\ AuthenticatedFlag(r)
              /\ now - CreatedAt(r) > absoluteSessionTimeout
              /\ ~Authenticating(r)' )
            => ~GetAuthenticated(r)']_vars

\* The flag is stored as true, created_at is more than 24h old, and
\* GetAuthenticated returns false.
C6_Witness ==
    \E r \in Requests :
        /\ Active(r)
        /\ AuthenticatedFlag(r)
        /\ CreatedAt(r) # NoTime
        /\ now - CreatedAt(r) > absoluteSessionTimeout
        /\ ~GetAuthenticated(r)

\* The setter of a slot, called with token t on request r, was the last step.
SetterOp(slot) == IF slot = accessTokenCookie THEN "SetAccessToken" ELSE "SetRefreshToken"
JustSet(r, slot) == Active(r) /\ lastOp.op = SetterOp(slot) /\ lastOp.r = r

\* C7: after any sequence of SetAccessToken calls on one instance, tokens
\* stored inline and tokens stored in chunks in any order, GetAccessToken
\* returns the token of the last call; the same for the refresh slot.
C7_GetReturnsLastSetToken ==
    \A r \in Requests, slot \in Slots :
        (Active(r) /\ setTok[r][slot] # NoToken)
        => GetToken(Heap, sd[held[r]], slot) = Raw(setTok[r][slot])

\* An inline token was set over a chunked one that the same request had set
\* before: the registry still holds the chunk session the earlier call filled.
C7_Witness ==
    \E r \in Requests :
        /\ JustSet(r, accessTokenCookie)
        /\ NChunks(lastOp.arg) = 0
        /\ CookieName(accessTokenCookie, 0) \notin DOMAIN reqCookies[r]
        /\ Ref(r, CookieName(accessTokenCookie, 0)) \in DOMAIN sess
        /\ "token_chunk" \in DOMAIN sess[Ref(r, CookieName(accessTokenCookie, 0))].Values
        /\ GetAccessToken(r) = Raw(lastOp.arg)

\* C8: a token whose encoding is at most 2000 bytes long is stored inline by
\* SetAccessToken, with compressed = true and an empty chunk map, and
\* GetAccessToken then returns the token.
C8_SmallTokenStoredInline ==
    \A r \in Requests :
        (JustSet(r, accessTokenCookie)
            /\ StrLen(compressToken(Raw(lastOp.arg))) <= maxCookieSize)
        => LET values == ValuesOf(Heap, sd[held[r]].accessSession)
           IN /\ ValString(values, "token") = compressToken(Raw(lastOp.arg))
              /\ ValBool(values, "compressed")
              /\ sd[held[r]].accessTokenChunks = EmptyMap
              /\ GetAccessToken(r) = Raw(lastOp.arg)

\* The token whose encoding is exactly 2000 bytes long was set and is inline.
C8_Witness ==
    \E r \in Requests :
        /\ JustSet(r, accessTokenCookie)
        /\ StrLen(compressToken(Raw(lastOp.arg))) = maxCookieSize
        /\ sd[held[r]].accessTokenChunks = EmptyMap
        /\ GetAccessToken(r) = Raw(lastOp.arg)

\* C9: a token whose encoding has length L > 2000 is stored by
\* SetAccessToken in exactly ceil(L / 2000) chunks at indices
\* 0 .. ceil(L / 2000) - 1, each fragment at most 2000 bytes long and their
\* concatenation in order the encoding; the inline token field is empty,
\* compressed = true, and GetAccessToken returns the token.
C9_LargeTokenStoredInChunks ==
    \A r \in Requests :
        (JustSet(r, accessTokenCookie)
            /\ StrLen(compressToken(Raw(lastOp.arg))) > maxCookieSize)
        => LET L == StrLen(compressToken(Raw(lastOp.arg)))
               n == (L + maxCookieSize - 1) \div maxCookieSize
               values == ValuesOf(Heap, sd[held[r]].accessSession)
               chunks == sd[held[r]].accessTokenChunks
           IN /\ DOMAIN chunks = 0 .. (n - 1)
              /\ \A i \in DOMAIN chunks :
                    LET fragment == ValString(ValuesOf(Heap, chunks[i]), "token_chunk")
                    IN StrLen(fragment) > 0 /\ StrLen(fragment) <= maxCookieSize
              /\ JoinChunks(Heap, chunks, 0) = compressToken(Raw(lastOp.arg))
              /\ "token" \in DOMAIN values /\ values["token"] = <<>>
              /\ ValBool(values, "compressed")
              /\ GetAccessToken(r) = Raw(lastOp.arg)

\* A token that needs three chunks, the last one shorter, was set.
C9_Witness ==
    \E r \in Requests :
        /\ JustSet(r, accessTokenCookie)
        /\ StrLen(compressToken(Raw(lastOp.arg))) % maxCookieSize # 0
        /\ DOMAIN sd[held[r]].accessTokenChunks = 0 .. 2
        /\ GetAccessToken(r) = Raw(lastOp.arg)

\* Request r has just been loaded, and the request before it, which arrived
\* without token cookies, saved once.
LoadedAfterFirstSave(r) ==
    /\ Active(r) /\ lastOp.op = "GetSession" /\ lastOp.r = r
    /\ ~prev.tokenCookiesIn
    /\ prev.nsaves = 1

\* C10: for a client that holds no token cookies, the tokens set by
\* SetAccessToken and SetRefreshToken and saved by one Save are what the
\* getters return after the load of the next request, which carries the
\* cookies that Save wrote; for inline and for chunked tokens (stated for each
\* slot that was set).
C10_TokensSurviveRoundTrip ==
    \A r \in Requests, slot \in Slots :
        (LoadedAfterFirstSave(r) /\ prev.saved[slot] # NoToken)
        => GetToken(Heap, sd[held[r]], slot) = Raw(prev.saved[slot])

\* Both slots were set and saved, one token inline and one in chunks, and the
\* next request has loaded them.
C10_Witness ==
    \E r \in Requests :
        /\ LoadedAfterFirstSave(r)
        /\ prev.saved[accessTokenCookie] # NoToken
        /\ prev.saved[refreshTokenCookie] # NoToken
        /\ NChunks(prev.saved[accessTokenCookie]) > 1
        /\ NChunks(prev.saved[refreshTokenCookie]) = 0
        /\ GetAccessToken(r) = Raw(prev.saved[accessTokenCookie])
        /\ GetRefreshToken(r) = Raw(prev.saved[refreshTokenCookie])

\* C11: after Clear with a writer on a session that held an access token
\* (inline or in chunks), the session that a later request of the same
\* client loads, from the cookies the client holds after that response, has
\* no access token: GetAccessToken returns the empty string.
C11_NoAccessTokenAfterClear ==
    \A r \in Requests :
        ( /\ Active(r) /\ lastOp.op = "GetSession" /\ lastOp.r = r
          /\ accessTokenCookie \in prev.cleared )
        => GetAccessToken(r) = <<>>

\* C12: after a request whose load reported SessionExpired, the client is
\* not locked out: its following request, carrying the cookies the client
\* then holds, gets a SessionData from the load, unauthenticated.
C12_NotLockedOutAfterExpiry ==
    \A r \in Requests :
        (lastOp.op = "GetSession" /\ lastOp.r = r /\ prev.outcome = "expired")
        => (Active(r) /\ ~GetAuthenticated(r))

\* A request has its cookies loaded and has not yet been answered or cleared.
InFlight(r) == pc[r] = "active"

\* C13: with requests served concurrently, no SessionData instance is held by
\* two in-flight requests; an instance that a request holds is not in the
\* pool, so it is not handed out again before it is released; and a release,
\* by Clear or by a load that fails, leaves the instance in the pool exactly
\* once.
C13_InstanceHeldByAtMostOneRequest ==
    /\ \A q, r \in Requests :
           (InFlight(q) /\ InFlight(r) /\ q # r) => held[q] # held[r]
    /\ \A r \in Requests :
           InFlight(r) => (held[r] \in DOMAIN sd /\ pool[held[r]] = 0)
    /\ \A i \in DOMAIN pool : pool[i] \in {0, 1}
    /\ lastOp.op = "Clear" => pool[lastOp.arg.inst] = 1
    /\ (lastOp.op = "GetSession" /\ pc[lastOp.r] \in {"expired", "error"})
           => (held[lastOp.r] = 0 /\ pool[lastOp.arg.inst] = 1)

\* Two requests are in flight at once, the later one on an instance that an
\* earlier request released.
C13_Witness ==
    /\ lastOp.op = "GetSession"
    /\ ~lastOp.arg.fresh
    /\ InFlight(lastOp.r)
    /\ \E q \in Requests : q # lastOp.r /\ InFlight(q)

Undecodable(r, base) ==
    /\ BaseName(base) \in DOMAIN reqCookies[r]
    /\ reqCookies[r][BaseName(base)] = Corrupt

\* The main record the request carries is past the absolute timeout.
CarriesExpired(r) ==
    /\ BaseName(mainCookieName) \in DOMAIN reqCookies[r]
    /\ ~Undecodable(r, mainCookieName)
    /\ "created_at" \in DOMAIN reqCookies[r][BaseName(mainCookieName)]
    /\ TimedOut(reqCookies[r][BaseName(mainCookieName)]["created_at"])

\* Loading main fails, or main is within its lifetime and loading access or
\* refresh fails.
StoreFailure(r) ==
    \/ Undecodable(r, mainCookieName)
    \/ /\ ~CarriesExpired(r)
       /\ Undecodable(r, accessTokenCookie) \/ Undecodable(r, refreshTokenCookie)

\* C15: when the store fails on main, access or refresh during a load, the
\* load returns an error and no SessionData, the instance is back in the pool,
\* and no chunk cookie has been looked up.
C15_StoreFailureReleasesInstance ==
    (lastOp.op = "GetSession" /\ StoreFailure(lastOp.r)) =>
        LET r == lastOp.r
        IN /\ pc[r] = "error"
           /\ held[r] = 0
           /\ pool[lastOp.arg.inst] = 1
           /\ \A k \in DOMAIN sess : k[1] = r => k[2][2] = NoIndex

\* The load failed on the access cookie of a client that holds chunk cookies.
C15_Witness ==
    /\ lastOp.op = "GetSession"
    /\ pc[lastOp.r] = "error"
    /\ ~Undecodable(lastOp.r, mainCookieName)
    /\ Undecodable(lastOp.r, accessTokenCookie)
    /\ CookieName(accessTokenCookie, 0) \in DOMAIN reqCookies[lastOp.r]
    /\ pool[lastOp.arg.inst] = 1

\* The headers that the Save of the last step has added to the response.
WrittenBySave == SubSeq(resp[lastOp.r], lastOp.arg.first, Len(resp[lastOp.r]))

\* The chunk indices named by the headers at positions from..to of hs, which
\* all belong to the slot.
ChunkHeaders(hs, from, to, slot) ==
    IF \A j \in from..to : hs[j].name[1] = slot /\ hs[j].name[2] # NoIndex
    THEN {hs[j].name[2] : j \in from..to}
    ELSE {NoIndex}

\* C17: a Save that succeeds writes main, access, refresh, then every access
\* chunk, then every refresh chunk, one header each.
C17_SaveWritesInOrder ==
    (lastOp.op = "Save" /\ ~lastOp.arg.err) =>
        LET s == sd[held[lastOp.r]]
            hs == WrittenBySave
            nA == Cardinality(DOMAIN s.accessTokenChunks)
            nR == Cardinality(DOMAIN s.refreshTokenChunks)
        IN /\ Len(hs) = 3 + nA + nR
           /\ hs[1].name = BaseName(mainCookieName)
           /\ hs[2].name = BaseName(accessTokenCookie)
           /\ hs[3].name = BaseName(refreshTokenCookie)
           /\ nA > 0 => ChunkHeaders(hs, 4, 3 + nA, accessTokenCookie) = DOMAIN s.accessTokenChunks
           /\ nR > 0 => ChunkHeaders(hs, 4 + nA, 3 + nA + nR, refreshTokenCookie)
                            = DOMAIN s.refreshTokenChunks

\* A Save has written chunks of both tokens.
C17_Witness ==
    /\ lastOp.op = "Save"
    /\ ~lastOp.arg.err
    /\ DOMAIN sd[held[lastOp.r]].accessTokenChunks # {}
    /\ DOMAIN sd[held[lastOp.r]].refreshTokenChunks # {}
    /\ Len(WrittenBySave) >= 5

\* The names of the cookies a Save of the instance writes when its chunk maps
\* are iterated in the orders ordA and ordR.
SaveOrder(ordA, ordR) ==
    << BaseName(mainCookieName), BaseName(accessTokenCookie), BaseName(refreshTokenCookie) >>
        \o [j \in 1..Len(ordA) |-> CookieName(accessTokenCookie, ordA[j])]
        \o [j \in 1..Len(ordR) |-> CookieName(refreshTokenCookie, ordR[j])]

\* C19: a Save whose write number k fails returns an error, has added to the
\* response exactly the k - 1 headers that come before it, and has left the
\* headers written earlier in the request where they were.
C19_FailedSaveStopsAtFailure ==
    [][ (lastOp'.op = "Save" /\ lastOp'.arg.failAt > 0) =>
            LET r == lastOp'.r
                k == lastOp'.arg.failAt
                order == SaveOrder(lastOp'.arg.ordA, lastOp'.arg.ordR)
            IN /\ lastOp'.arg.err
               /\ Len(resp'[r]) = Len(resp[r]) + k - 1
               /\ SubSeq(resp'[r], 1, Len(resp[r])) = resp[r]
               /\ \A j \in 1..(k - 1) : resp'[r][Len(resp[r]) + j].name = order[j]
      ]_vars

\* A Save failed at a chunk, after an earlier Save of the request had written
\* headers.
C19_Witness ==
    /\ lastOp.op = "Save"
    /\ lastOp.arg.err
    /\ lastOp.arg.failAt > 3
    /\ lastOp.arg.failAt < lastOp.arg.calls
    /\ lastOp.arg.first > 1
    /\ Len(resp[lastOp.r]) = lastOp.arg.first + lastOp.arg.failAt - 2

\* The last step was a Save that succeeded, called by the handler or by Clear.
SavedLast ==
    \/ lastOp.op = "Save" /\ ~lastOp.arg.err
    \/ lastOp.op = "Clear" /\ lastOp.arg.w /\ ~lastOp.arg.err

\* The options of a written cookie other than Secure.
FixedOptions(h) ==
    /\ h.HttpOnly
    /\ h.SameSite = "Lax"
    /\ h.Path = "/"
    /\ h.MaxAge = 86400

\* With forceHTTPS no response carries a cookie without Secure.
ForcedSecure ==
    forceHTTPS => \A r \in Requests : \A j \in 1..Len(resp[r]) : resp[r][j].Secure

BeginsWithHttps(r) ==
    /\ Len(scheme[r]) >= 5
    /\ \A j \in 1..5 : scheme[r][j] = Https[j]

C16_EveryPayloadWithinCap ==
    (lastOp.op = "Save" /\ ~lastOp.arg.err) =>
        \A j \in 1..Len(WrittenBySave) :
            PayloadLen(WrittenBySave[j].Values, DOMAIN WrittenBySave[j].Values) <= 2000

\* C16, amended: whatever the setters were given, the token text that a Save
\* writes in one cookie, inline in access or refresh or as the fragment of a
\* chunk, is at most 2000 bytes long.
C16_TokenTextWithinCap ==
    (lastOp.op = "Save" /\ ~lastOp.arg.err) =>
        \A j \in 1..Len(WrittenBySave) :
            /\ StrLen(ValString(WrittenBySave[j].Values, "token")) <= 2000
            /\ StrLen(ValString(WrittenBySave[j].Values, "token_chunk")) <= 2000

\* A Save has written a main partition with a long value and a chunk that is
\* exactly as long as the cap.
C16_Witness ==
    /\ lastOp.op = "Save"
    /\ ~lastOp.arg.err
    /\ PayloadLen(WrittenBySave[1].Values, DOMAIN WrittenBySave[1].Values) > 2000
    /\ \E j \in 4..Len(WrittenBySave) :
           StrLen(ValString(WrittenBySave[j].Values, "token_chunk")) = 2000

\* The parameters every token request carries.
CommonParameters == {"grant_type", "client_id", "client_secret"}

\* C20: every request posted to the token endpoint carries grant_type,
\* client_id and client_secret; a refresh_token request carries besides them
\* refresh_token and nothing else, so no code, redirect_uri or code_verifier;
\* an authorization_code request carries code and redirect_uri and no
\* refresh_token.  The request of getNewTokenWithRefreshToken is a
\* refresh_token request, that of exchangeCodeForToken an authorization_code
\* request.
C20_TokenRequestParameters ==
    /\ \A i \in 1..Len(tokenRequests) :
          LET data == tokenRequests[i]
          IN /\ CommonParameters \subseteq DOMAIN data
             /\ data["client_id"] = clientID
             /\ data["client_secret"] = clientSecret
             /\ data["grant_type"] = "refresh_token"
                   => DOMAIN data = CommonParameters \cup {"refresh_token"}
             /\ data["grant_type"] = "authorization_code"
                   => /\ {"code", "redirect_uri"} \subseteq DOMAIN data
                      /\ "refresh_token" \notin DOMAIN data
    /\ (lastOp.op = "getNewTokenWithRefreshToken" /\ lastOp.arg.posted)
          => /\ tokenRequests[Len(tokenRequests)]["grant_type"] = "refresh_token"
             /\ tokenRequests[Len(tokenRequests)]["refresh_token"] = lastOp.arg.codeOrToken
    /\ (lastOp.op = "exchangeCodeForToken" /\ lastOp.arg.posted)
          => /\ tokenRequests[Len(tokenRequests)]["grant_type"] = "authorization_code"
             /\ tokenRequests[Len(tokenRequests)]["code"] = lastOp.arg.codeOrToken
             /\ tokenRequests[Len(tokenRequests)]["redirect_uri"] = lastOp.arg.redirectURL

\* A code exchange with a verifier has been followed by a refresh.
C20_Witness ==
    /\ Len(tokenRequests) = 2
    /\ tokenRequests[1]["grant_type"] = "authorization_code"
    /\ "code_verifier" \in DOMAIN tokenRequests[1]
    /\ lastOp.op = "getNewTokenWithRefreshToken"
    /\ tokenRequests[2]["refresh_token"] = "refresh-1"

\* C21: the request that exchangeCodeForToken builds contains code_verifier
\* exactly when PKCE is enabled and the supplied verifier is not empty, and
\* then with the supplied verifier as its value; with PKCE disabled it never
\* contains code_verifier.
C21_VerifierOnlyWithPKCE ==
    lastOp.op = "exchangeCodeForToken" =>
        /\ "code_verifier" \in DOMAIN exchange.data
              <=> (enablePKCE /\ lastOp.arg.supplied # "")
        /\ "code_verifier" \in DOMAIN exchange.data
              => exchange.data["code_verifier"] = lastOp.arg.supplied
        /\ lastOp.arg.posted => tokenRequests[Len(tokenRequests)] = exchange.data

\* With PKCE disabled, a code exchange to which a verifier was supplied has
\* been posted.
C21_Witness ==
    /\ lastOp.op = "exchangeCodeForToken"
    /\ lastOp.arg.posted
    /\ ~enablePKCE
    /\ lastOp.arg.supplied = "verifier-1"
    /\ "code_verifier" \notin DOMAIN tokenRequests[Len(tokenRequests)]

\* C22: exchangeTokens returns a TokenResponse only for an answer with status
\* 200 and a body that decodes; another status gives an error that carries
\* the status, a malformed body a decode error, a transport failure an error,
\* and no error comes with a TokenResponse.
C22_ResponseOnlyFrom200AndJSON ==
    exchange.state = "returned" =>
        /\ exchange.result \in {"ok", "error"}
        /\ exchange.result = "error" <=> exchange.response = NoResponse
        /\ exchange.result = "ok"
              => /\ lastOp.op = "ProviderAnswers"
                 /\ lastOp.arg.status = 200
                 /\ lastOp.arg.body = "json"
                 /\ exchange.response = TokenResponse
        /\ (lastOp.op = "ProviderAnswers" /\ lastOp.arg.status # 200)
              => /\ exchange.result = "error"
                 /\ exchange.cause = "status"
                 /\ exchange.status = lastOp.arg.status
        /\ (lastOp.op = "ProviderAnswers" /\ lastOp.arg.status = 200
                                          /\ lastOp.arg.body # "json")
              => (exchange.result = "error" /\ exchange.cause = "decode")
        /\ lastOp.op = "TransportFails"
              => (exchange.result = "error" /\ exchange.cause = "transport")

\* An answer with a well-formed body and a status other than 200 has been
\* turned into an error.
C22_Witness ==
    /\ exchange.state = "returned"
    /\ lastOp.op = "ProviderAnswers"
    /\ lastOp.arg.status = 201
    /\ lastOp.arg.body = "json"
    /\ exchange.result = "error"
    /\ exchange.status = 201
    /\ exchange.response = NoResponse

\* C24, as claimed: an exchange follows a chain of up to 50 redirects and
\* fails because of redirects only when the chain goes beyond 50.
C24_FailsOnlyBeyond50Redirects ==
    /\ (lastOp.op = "ProviderRedirects" /\ exchange.redirects <= 50) => Inflight
    /\ exchange.cause = "redirects" => exchange.redirects > 50

\* C24, amended: an exchange follows a chain of up to 49 redirects, which
\* makes 50 requests, and fails because of redirects exactly when a 50th
\* redirect arrives.
C24_FailsAtThe50thRedirect ==
    /\ exchange.redirects <= 50
    /\ (lastOp.op = "ProviderRedirects" /\ exchange.redirects <= 49)
          => (Inflight /\ exchange.via = exchange.redirects + 1)
    /\ (lastOp.op = "ProviderRedirects" /\ exchange.redirects = 50)
          => (exchange.state = "returned" /\ exchange.result = "error")
    /\ exchange.cause = "redirects" <=> (exchange.state = "returned" /\ exchange.redirects = 50)

\* The 50th redirect has ended the exchange with an error.
C24_Witness ==
    /\ lastOp.op = "ProviderRedirects"
    /\ exchange.state = "returned"
    /\ exchange.cause = "redirects"
    /\ exchange.redirects = 50
    /\ exchange.via = 50

\* C23: every invocation of the exchange, direct or through
\* getNewTokenWithRefreshToken or exchangeCodeForToken, makes one call to the
\* provider, and an invocation that is waiting returns once the upstream
\* caller's context is cancelled and once the timeout is reached.
C23_CancelOrTimeoutUnblocks ==
    /\ [](exchange.calls <= 1)
    /\ []((Inflight \/ (exchange.state = "returned" /\ exchange.cause # "request"))
            => exchange.calls = 1)
    /\ (Inflight /\ (exchange.cancelled \/ exchange.deadline)) ~> ~Inflight

\* What Get(token) returns in the state at hand.
GetNow(token) == TokenCacheLookup(tokenCache, now, token)

\* C25: Get(token) finds the claims of the latest Set of the token exactly
\* when there was such a Set, no Delete of the token came after it, and the
\* time is before its expiry; a Set whose ttl has already elapsed is not
\* found; and Set and Delete of one token leave Get of every other token as
\* it was.
C25_GetReturnsLatestUnexpiredSet ==
    /\ [](\A token \in CacheTokens :
            /\ GetNow(token).found
                  <=> (token \in DOMAIN cacheSets /\ now < cacheSets[token].expiry)
            /\ GetNow(token).found => GetNow(token).claims = cacheSets[token].claims)
    /\ []((lastOp.op = "TokenCacheSet" /\ lastOp.arg.ttl <= 0)
            => ~GetNow(lastOp.arg.token).found)
    /\ [][ \A token \in CacheTokens :
              (lastOp'.op \in {"TokenCacheSet", "TokenCacheDelete"}
                  /\ lastOp'.arg.token # token)
              => TokenCacheLookup(tokenCache', now', token) = GetNow(token) ]_vars

\* One token has been set again and is found with its new claims, while the
\* other token, set and deleted, is not found.
C25_Witness ==
    /\ lastOp.op = "TokenCacheDelete"
    /\ ~GetNow(lastOp.arg.token).found
    /\ \E token \in CacheTokens :
          /\ token # lastOp.arg.token
          /\ GetNow(token).found
          /\ GetNow(token).claims = "claims-2"
          /\ now > 0

\* C26: Cleanup removes the entries whose expiry has passed and no other, and
\* Get of every token returns after it what it returned before.
C26_CleanupRemovesExactlyExpired ==
    [][ lastOp'.op = "TokenCacheCleanup" =>
          /\ DOMAIN tokenCache' = {k \in DOMAIN tokenCache : now < tokenCache[k].expiry}
          /\ \A k \in DOMAIN tokenCache' : tokenCache'[k] = tokenCache[k]
          /\ \A token \in CacheTokens :
                TokenCacheLookup(tokenCache', now', token) = GetNow(token) ]_vars

\* A Cleanup has removed an expired entry and kept an unexpired one.
C26_Witness ==
    /\ lastOp.op = "TokenCacheCleanup"
    /\ \E token \in CacheTokens :
          /\ token \in DOMAIN cacheSets
          /\ Namespaced(token) \notin DOMAIN tokenCache
    /\ \E token \in CacheTokens : GetNow(token).found

LoggedOut ==
    /\ lastOp.op = "handleLogout"
    /\ lastOp.arg.loaded = "ok"
    /\ lastOp.arg.cleared

\* The answer is a redirect to the end-session URL, carrying the captured
\* access token as id_token_hint.
ToProvider ==
    /\ lastOp.arg.reply.status = 302
    /\ ~urlParse(endSessionURL).err
    /\ LET out == urlParse(lastOp.arg.reply.location).u
       IN /\ out.Front = urlParse(endSessionURL).u.Front
          /\ IdTokenHint \in DOMAIN urlQuery(out)
          /\ urlQuery(out)[IdTokenHint] = <<lastOp.arg.accessToken>>

\* The provider is to be used: it has an end-session URL and there was a token.
ProviderWanted == endSessionURL # <<>> /\ lastOp.arg.accessToken # <<>>

SiteOf(arg) == arg.scheme \o <<":", "/", "/">> \o arg.host

\* A URL with a scheme, as opposed to a relative path.
IsAbsoluteURL(url) ==
    LET c == StrCut(url, ":")
    IN c.found /\ c.before # <<>> /\ \A i \in DOMAIN c.before : c.before[i] # "/"

\* The post-logout URL: the site root when none is configured, the
\* configured one behind scheme and host when it is a relative path.
PostLogoutOfRelativePaths ==
    CASE postLogoutRedirectURI = <<>> -> SiteOf(lastOp.arg) \o <<"/">>
      [] postLogoutRedirectURI # <<>> /\ ~IsAbsoluteURL(postLogoutRedirectURI) ->
            SiteOf(lastOp.arg) \o postLogoutRedirectURI
      [] OTHER -> postLogoutRedirectURI

\* The post-logout URL: the site root when none is configured, the
\* configured one as it is when it begins with "http", and behind scheme and
\* host otherwise.
PostLogoutOfHttpPrefix ==
    CASE postLogoutRedirectURI = <<>> -> SiteOf(lastOp.arg) \o <<"/">>
      [] postLogoutRedirectURI # <<>> /\ HasPrefix(postLogoutRedirectURI, Http) ->
            postLogoutRedirectURI
      [] OTHER -> SiteOf(lastOp.arg) \o postLogoutRedirectURI

(***************************************************************************)
(* C27, as claimed: a logout whose session loads and clears is answered    *)
(* with a redirect to the end-session URL exactly when an end-session URL  *)
(* is configured and the access token captured before clearing was not     *)
(* empty; otherwise with a redirect to the post-logout URL, which is the   *)
(* site root of the request when none is configured and is put behind the  *)
(* request's scheme and host when configured as a relative path.           *)
(***************************************************************************)
C27_LogoutRedirects ==
    LoggedOut =>
      /\ ToProvider <=> ProviderWanted
      /\ ~ToProvider =>
            /\ lastOp.arg.reply.status = 302
            /\ lastOp.arg.reply.location = PostLogoutOfRelativePaths

(***************************************************************************)
(* C27, as the code has it: the redirect goes to the end-session URL       *)
(* exactly when one is configured, it parses and the captured access token *)
(* was not empty, and then carries the post-logout URL; when it does not   *)
(* parse the answer is status 500; without end-session URL or without      *)
(* token the redirect goes to the post-logout URL.  The post-logout URL is *)
(* the site root when none is configured, the configured one when it       *)
(* begins with "http", and the configured one behind the request's scheme  *)
(* and host otherwise.                                                     *)
(***************************************************************************)
C27_LogoutRedirectsWhenURLParses ==
    LoggedOut =>
      /\ ToProvider <=> (ProviderWanted /\ ~urlParse(endSessionURL).err)
      /\ ToProvider =>
            urlQuery(urlParse(lastOp.arg.reply.location).u)[PostLogoutParam]
               = <<PostLogoutOfHttpPrefix>>
      /\ ProviderWanted /\ urlParse(endSessionURL).err =>
            lastOp.arg.reply = [status |-> 500, location |-> <<>>]
      /\ ~ProviderWanted =>
            /\ lastOp.arg.reply.status = 302
            /\ lastOp.arg.reply.location = PostLogoutOfHttpPrefix

\* A request that carried an access token has been logged out towards the
\* provider, with a post-logout URL configured as a path.
C27_Witness ==
    /\ LoggedOut
    /\ ToProvider
    /\ lastOp.arg.accessToken # <<>>
    /\ postLogoutRedirectURI = <<"/", "o">>
    /\ resp[lastOp.r] # <<>>

\* What the store decodes from the request's cookie of that name: its values,
\* or nothing when there is no such cookie or it does not decode.
DecodedFromCookie(r, name) ==
    IF name \in DOMAIN reqCookies[r] /\ reqCookies[r][name] # Corrupt
    THEN reqCookies[r][name] ELSE EmptyMap

\* GetSession has just returned an instance to request r.
JustLoaded(r) == lastOp.op = "GetSession" /\ lastOp.r = r /\ pc[r] = "active"

(***************************************************************************)
(* C29: after a successful load the instance refers to sessions of the     *)
(* current request only: its three partitions are the request's sessions   *)
(* for the three cookie names, its chunk maps hold the request's sessions  *)
(* for chunk cookies the request carries, and every one of them holds what *)
(* the store decoded from the request's cookie.  The instance is what a    *)
(* newly constructed instance would be after the same load, so that no     *)
(* getter returns anything of the request that used the instance before.   *)
(***************************************************************************)
C29_LoadedInstanceHoldsOnlyRequestData ==
    \A r \in Requests :
      JustLoaded(r) =>
        LET s == sd[held[r]]
        IN /\ s.request = r
           /\ s.mainSession = Ref(r, BaseName(mainCookieName))
           /\ s.accessSession = Ref(r, BaseName(accessTokenCookie))
           /\ s.refreshSession = Ref(r, BaseName(refreshTokenCookie))
           /\ \A ref \in InstanceRefs(s) :
                 /\ ref[1] = r
                 /\ sess[ref].Values = DecodedFromCookie(r, ref[2])
           /\ \A slot \in Slots : \A i \in DOMAIN TokenChunks(s, slot) :
                 /\ TokenChunks(s, slot)[i] = Ref(r, CookieName(slot, i))
                 /\ CookieName(slot, i) \in DOMAIN reqCookies[r]
           /\ s = LoadSession(r, NewSessionData).s
           /\ \A slot \in Slots :
                 GetToken(Heap, s, slot)
                    = GetToken(Heap, LoadSession(r, NewSessionData).s, slot)

\* A request has loaded into the only instance there is, which the request
\* before it had filled with a chunked token and then cleared: the sessions
\* of that request's chunks are still there.
C29_Witness ==
    \E r \in Requests :
      /\ JustLoaded(r)
      /\ ~lastOp.arg.fresh
      /\ Len(sd) = 1
      /\ prev.outcome = "cleared"
      /\ \E ref \in DOMAIN sess :
            /\ ref[1] = prev.r
            /\ ref[1] # r
            /\ ref[2] = CookieName(accessTokenCookie, 1)

\* The number of chunks a reassembly reads: the first index the map lacks.
RECURSIVE ChunksRead(_, _)
ChunksRead(chunks, i) == IF i \in DOMAIN chunks THEN ChunksRead(chunks, i + 1) ELSE i

(***************************************************************************)
(* C30: the keys of each chunk map of every instance are 0 .. n-1 for some *)
(* n >= 0, whatever loads and setter calls the instance has gone through,  *)
(* so that a reassembly, which reads from index 0 up to the first missing  *)
(* index, reads every chunk of the map.                                    *)
(***************************************************************************)
C30_ChunkKeysContiguous ==
    \A i \in DOMAIN sd : \A slot \in Slots :
      LET chunks == TokenChunks(sd[i], slot)
      IN /\ DOMAIN chunks = 0..(Cardinality(DOMAIN chunks) - 1)
         /\ ChunksRead(chunks, 0) = Cardinality(DOMAIN chunks)

\* A request that carries the chunk cookie number 1 of the access token,
\* but none number 0 that decodes, has been loaded.
C30_Witness ==
    \E r \in Requests :
      /\ JustLoaded(r)
      /\ CookieName(accessTokenCookie, 1) \in DOMAIN reqCookies[r]
      /\ reqCookies[r][CookieName(accessTokenCookie, 1)] # Corrupt
      /\ \/ CookieName(accessTokenCookie, 0) \notin DOMAIN reqCookies[r]
         \/ reqCookies[r][CookieName(accessTokenCookie, 0)] = Corrupt
      /\ DOMAIN sd[held[r]].accessTokenChunks = {}

(***************************************************************************)
(* C31: handleLogout redirects only after Clear has succeeded.  When the   *)
(* load fails (the store cannot decode a cookie, or the session has        *)
(* expired) or Clear fails, the answer is status 500 without redirect, and *)
(* when the load fails no cookie is written to the response.               *)
(***************************************************************************)
C31_RedirectOnlyAfterClear ==
    lastOp.op = "handleLogout" =>
      /\ lastOp.arg.reply.status = 302 => lastOp.arg.loaded = "ok" /\ lastOp.arg.cleared
      /\ lastOp.arg.loaded # "ok" \/ ~lastOp.arg.cleared =>
            lastOp.arg.reply = [status |-> 500, location |-> <<>>]
      /\ lastOp.arg.loaded # "ok" => resp[lastOp.r] = <<>>

(***************************************************************************)
(* C32: whenever the authenticated flag of a main partition is true, the   *)
(* partition holds a created_at as well: in every session object of the    *)
(* main cookie and in every main cookie the client holds.  GetAuthenticated *)
(* of an instance whose flag is true therefore returns false only when     *)
(* the timeout has passed.                                                 *)
(***************************************************************************)
C32_AuthenticatedHasCreatedAt ==
    /\ \A ref \in DOMAIN sess :
          ref[2] = BaseName(mainCookieName) /\ ValBool(sess[ref].Values, "authenticated")
             => "created_at" \in DOMAIN sess[ref].Values
    /\ BaseName(mainCookieName) \in DOMAIN jar /\ jar[BaseName(mainCookieName)] # Corrupt
          /\ ValBool(jar[BaseName(mainCookieName)], "authenticated")
             => "created_at" \in DOMAIN jar[BaseName(mainCookieName)]
    /\ \A r \in Requests :
          Active(r) /\ AuthenticatedFlag(r) /\ ~GetAuthenticated(r)
             => CreatedAt(r) # NoTime /\ TimedOut(CreatedAt(r))

\* A request has loaded a main cookie that an earlier request saved with
\* the flag set.
C32_Witness ==
    \E r \in Requests :
      /\ JustLoaded(r)
      /\ prev.nsaves > 0
      /\ AuthenticatedFlag(r)
      /\ CreatedAt(r) # NoTime
      /\ GetAuthenticated(r)

\* The Set-Cookie headers a Save of the instance would write now for the
\* cookies that are not of the slot.
HeadersBesides(H, s, r, slot) ==
    LET ordA == CHOOSE o \in Perms(DOMAIN s.accessTokenChunks) : TRUE
        ordR == CHOOSE o \in Perms(DOMAIN s.refreshTokenChunks) : TRUE
        written == SaveSessions(H, s, r, SaveOptions(r, nsaves[r]), ordA, ordR, 0).written
    IN {written[i] : i \in {j \in DOMAIN written : written[j].name[1] # slot}}

\* The step is a call of the token setter of the slot on request r, and it
\* leaves everything that is not of the slot as it was: the main partition
\* with its ID and all its keys, the partition and the chunks of the other
\* slot, what the getters return for them, and what a Save would write for
\* them.
TokenSetterFrame(r, slot, other) ==
    lastOp'.op = SetterOp(slot) /\ lastOp'.r = r =>
      LET s == sd[held[r]]
          s1 == sd'[held[r]]
      IN /\ s1.mainSession = s.mainSession
         /\ TokenSession(s1, slot) = TokenSession(s, slot)
         /\ TokenSession(s1, other) = TokenSession(s, other)
         /\ TokenChunks(s1, other) = TokenChunks(s, other)
         /\ \A ref \in DOMAIN sess :
               ref[2][1] # slot =>
                  /\ ref \in DOMAIN sess'
                  /\ sess'[ref].Values = sess[ref].Values
                  /\ sess'[ref].ID = sess[ref].ID
         /\ GetToken(Heap', s1, other) = GetToken(Heap, s, other)
         /\ \A key \in StringKeys : GetString(r, key)' = GetString(r, key)
         /\ AuthenticatedFlag(r)' = AuthenticatedFlag(r)
         /\ CreatedAt(r)' = CreatedAt(r)
         /\ HeadersBesides(Heap', s1, r, slot) = HeadersBesides(Heap, s, r, slot)

\* The step is a call of a string setter on request r, and it changes the
\* value of its own key of the main partition and nothing else.
StringSetterFrame(r) ==
    \A key \in StringKeys :
      lastOp'.op = "SetString" /\ lastOp'.r = r /\ lastOp'.arg.key = key =>
        LET main == sd[held[r]].mainSession
        IN /\ sd' = sd
           /\ opts' = opts
           /\ DOMAIN sess' = DOMAIN sess
           /\ \A ref \in DOMAIN sess : ref # main => sess'[ref] = sess[ref]
           /\ sess'[main].ID = sess[main].ID
           /\ DOMAIN sess'[main].Values = DOMAIN sess[main].Values \cup {key}
           /\ \A k \in DOMAIN sess[main].Values \ {key} :
                 sess'[main].Values[k] = sess[main].Values[k]
           /\ GetString(r, key)' = lastOp'.arg.value
           /\ \A slot \in Slots :
                 GetToken(Heap', sd'[held[r]], slot) = GetToken(Heap, sd[held[r]], slot)

(***************************************************************************)
(* C33: SetAccessToken changes only the access partition and the access    *)
(* chunks: the refresh partition, the refresh chunks and every key of the  *)
(* main partition stay as they are; SetRefreshToken likewise with the      *)
(* slots exchanged; SetCSRF, SetNonce, SetCodeVerifier, SetEmail and       *)
(* SetIncomingPath change only their own key of the main partition, and    *)
(* the key's getter then returns the value set.                            *)
(***************************************************************************)
C33_SettersChangeOnlyTheirOwn ==
    [][\A r \in Requests :
         /\ TokenSetterFrame(r, accessTokenCookie, refreshTokenCookie)
         /\ TokenSetterFrame(r, refreshTokenCookie, accessTokenCookie)
         /\ StringSetterFrame(r)]_vars

\* SetAccessToken has stored a token in chunks on an instance that holds a
\* chunked refresh token and keys of the main partition.
C33_Witness ==
    \E r \in Requests :
      /\ JustSet(r, accessTokenCookie)
      /\ DOMAIN sd[held[r]].accessTokenChunks # {}
      /\ DOMAIN sd[held[r]].refreshTokenChunks # {}
      /\ DOMAIN MainValues(Heap, sd[held[r]]) # {}

(***************************************************************************)
(* C34: when generating the random identifier fails, SetAuthenticated(true) *)
(* returns an error, and the identifier of the main session, created_at    *)
(* and the authenticated flag are what they were before the call.          *)
(***************************************************************************)
C34_FailedSetAuthenticatedChangesNothing ==
    \A r \in Requests :
      ( /\ lastOp.op = "SetAuthenticated"
        /\ lastOp.r = r
        /\ lastOp.arg.value
        /\ ~lastOp.arg.ok )
      => /\ lastOp.arg.err
         /\ MainID(r) = lastOp.arg.before.id
         /\ CreatedAt(r) = lastOp.arg.before.created_at
         /\ AuthenticatedFlag(r) = lastOp.arg.before.authenticated

\* SetAuthenticated(true) has failed on a session that SetAuthenticated(false)
\* had marked as not authenticated after an earlier SetAuthenticated(true).
C34_Witness ==
    \E r \in Requests :
      /\ lastOp.op = "SetAuthenticated"
      /\ lastOp.r = r
      /\ lastOp.arg.value
      /\ ~lastOp.arg.ok
      /\ ~lastOp.arg.before.authenticated
      /\ lastOp.arg.before.created_at # NoTime
      /\ lastOp.arg.before.id # 0

====
